---- MODULE Spec2Model ----
(***************************************************************************)
(* World subsystem of THE-BACKROOMS (src/world.py): lazily cached geometry *)
(* (walls, pillars), the one-time pre-damage roll, progressive wall        *)
(* damage, the debris pool, collision queries and save/load.               *)
(*                                                                         *)
(* Numbers.  Python floats are modelled in fixed point: One stands for     *)
(* 1.0, so health, damage, probabilities and random draws are integers in  *)
(* units of 1/10000.  Every damage amount the model feeds in is a multiple *)
(* of 0.25, which binary floating point represents exactly, so the fixed   *)
(* point comparisons agree with the float comparisons of the code.         *)
(* World coordinates are integers (grid coordinates are multiples of       *)
(* PILLAR_SPACING).                                                        *)
(***************************************************************************)
EXTENDS Integers, Sequences, FiniteSets, TLC

VARIABLES
    world,   \* the World instance under test (a record of its fields)
    twin,    \* a second World instance built with the same seed
    out,     \* the last call made: operation, arguments, return value, events
    run      \* the current run of successive hit_wall(key, 0.25) calls on a fresh key

vars == <<world, twin, out, run>>

---------------------------------------------------------------------------
(* Fixed point and finite maps *)

One == 100 * 100

Abs(n) == IF n < 0 THEN -n ELSE n

Max(a, b) == IF a >= b THEN a ELSE b

Min(a, b) == IF a <= b THEN a ELSE b

EmptyMap == [k \in {} |-> 0]

\* m with m[k] = v (the left operand of @@ wins where both are defined).
Put(m, k, v) == (k :> v) @@ m

Get(m, k, default) == IF k \in DOMAIN m THEN m[k] ELSE default

---------------------------------------------------------------------------
(* config.py and procedural.py are not part of the sources at hand; the     *)
(* values below stand for them.                                             *)

PILLAR_SPACING == 400

PILLAR_SIZE == 80

WALL_THICKNESS == 20

ZONE_SIZE == 800

HALLWAY_WIDTH == 120

PILLAR_MODE == "normal"

\* ProceduralZone.get_zone_properties(zone_x, zone_z, seed)['decay_chance']:
\* a deterministic function of the zone and the seed.
ProceduralZone_get_zone_properties(zone_x, zone_z, seed) ==
    [decay_chance |-> IF (zone_x + zone_z) % 2 = 0 THEN (3 * One) \div 10
                                                   ELSE One \div 10]

---------------------------------------------------------------------------
(* CPython's random.Random(seed): the first random() and the value of a    *)
(* following uniform(0.0, 0.5), floored to 1/10000, tabulated from CPython *)
(* for every seed the model's coordinates produce; and hash((px, pz,       *)
(* world_seed)) % 100000 for the pillar lattice points.                    *)

PyRandomTable ==
    ((((((((-17019600 :> <<998, 2141>> @@ -16979708 :> <<3531, 4742>> @@ -16450800 :> <<7475, 4324>>) @@
    (-16410908 :> <<6837, 3004>> @@ -15817200 :> <<7835, 3571>> @@ -15777308 :> <<1249, 3058>>)) @@
    ((-15280400 :> <<6890, 2956>> @@ -15240508 :> <<5890, 4366>> @@ -12960400 :> <<1120, 3210>>) @@
    (-12920508 :> <<7999, 272>> @@ -12391600 :> <<7798, 3036>> @@ -12351708 :> <<8979, 4614>>))) @@
    (((-11854800 :> <<9114, 3930>> @@ -11814908 :> <<2584, 2905>> @@ -11758000 :> <<5394, 637>>) @@
    (-11718108 :> <<310, 4845>> @@ -11286000 :> <<1827, 3250>> @@ -11246108 :> <<8807, 1067>>)) @@
    (-11221200 :> <<3486, 3206>> @@ -11181308 :> <<5204, 3520>> @@ -10652400 :> <<9967, 1214>>))) @@
    ((((-10612508 :> <<1420, 1703>> @@ -10115600 :> <<8732, 3569>> @@ -10075708 :> <<5147, 4976>>) @@
    (-8901200 :> <<4987, 1484>> @@ -8861308 :> <<7535, 3497>> @@ -8332400 :> <<5082, 4803>>)) @@
    (-8292508 :> <<9159, 87>> @@ -7795600 :> <<5314, 4149>> @@ -7755708 :> <<5011, 2057>>)) @@
    (((-7698800 :> <<3000, 243>> @@ -7658908 :> <<1313, 2616>> @@ -7226800 :> <<9803, 4785>>) @@
    (-7186908 :> <<1110, 1464>> @@ -7162000 :> <<8049, 4539>> @@ -7122108 :> <<3359, 3147>>)) @@
    (-6690000 :> <<8825, 2150>> @@ -6650108 :> <<8241, 4639>> @@ -6593200 :> <<8109, 2410>>)))) @@
    (((((-6553308 :> <<4727, 234>> @@ -6121200 :> <<5719, 672>> @@ -6081308 :> <<5259, 4499>>) @@
    (-6056400 :> <<1984, 2028>> @@ -6016508 :> <<8062, 4429>> @@ -5487600 :> <<5223, 2323>>)) @@
    ((-5447708 :> <<6962, 2923>> @@ -4950800 :> <<3723, 1428>> @@ -4910908 :> <<7669, 4070>>) @@
    (-4842000 :> <<8720, 3945>> @@ -4802108 :> <<9256, 4593>> @@ -4595000 :> <<3270, 4511>>))) @@
    (((-4555108 :> <<9750, 170>> @@ -4273200 :> <<2289, 214>> @@ -4233308 :> <<8962, 4340>>) @@
    (-3736400 :> <<6807, 1657>> @@ -3696508 :> <<1719, 2527>> @@ -3639600 :> <<8059, 1291>>)) @@
    (-3599708 :> <<1107, 4153>> @@ -3436200 :> <<5958, 4205>> @@ -3396308 :> <<933, 4307>>))) @@
    ((((-3167600 :> <<7866, 2684>> @@ -3166600 :> <<3880, 4870>> @@ -3127708 :> <<2237, 1800>>) @@
    (-3126708 :> <<4784, 729>> @@ -3102800 :> <<6093, 4436>> @@ -3062908 :> <<8671, 2044>>)) @@
    (-2630800 :> <<2010, 830>> @@ -2590908 :> <<7192, 4377>> @@ -2534000 :> <<2771, 1215>>)) @@
    (((-2494108 :> <<8385, 2324>> @@ -2277400 :> <<5347, 756>> @@ -2237508 :> <<8441, 727>>) @@
    (-2062000 :> <<2018, 466>> @@ -2022108 :> <<7295, 1522>> @@ -2007800 :> <<4322, 3686>>)) @@
    (-1997200 :> <<92, 2552>> @@ -1967908 :> <<1510, 265>> @@ -1957308 :> <<3062, 440>>))))) @@
    ((((((-1738200 :> <<1498, 2769>> @@ -1698308 :> <<4833, 3027>> @@ -1525200 :> <<2770, 2261>>) @@
    (-1485308 :> <<11, 50>> @@ -1428400 :> <<1582, 2476>> @@ -1388508 :> <<3611, 1381>>)) @@
    ((-1118600 :> <<3521, 4857>> @@ -1078708 :> <<9518, 1274>> @@ -956400 :> <<4062, 1692>>) @@
    (-916508 :> <<5443, 4461>> @@ -891600 :> <<7750, 2258>> @@ -851708 :> <<7838, 3183>>))) @@
    (((-849000 :> <<9151, 3740>> @@ -809108 :> <<7074, 2725>> @@ -782800 :> <<6040, 2607>>) @@
    (-742908 :> <<4508, 221>> @@ -579400 :> <<6182, 2127>> @@ -539508 :> <<3016, 1761>>)) @@
    (-322800 :> <<9078, 206>> @@ -309800 :> <<1547, 3898>> @@ -282908 :> <<693, 652>>))) @@
    ((((-269908 :> <<8072, 1119>> @@ -214000 :> <<462, 1736>> @@ -174108 :> <<3217, 2220>>) @@
    (0 :> <<8444, 3789>> @@ 570 :> <<762, 73>> @@ 616 :> <<266, 2239>>)) @@
    (2683 :> <<7459, 3749>> @@ 5515 :> <<2339, 3405>> @@ 6379 :> <<284, 4516>>)) @@
    (((10697 :> <<3585, 2400>> @@ 16042 :> <<4328, 763>> @@ 17087 :> <<6004, 4052>>) @@
    (17788 :> <<5336, 1977>> @@ 18312 :> <<2829, 2109>> @@ 18512 :> <<4551, 1610>>)) @@
    (19965 :> <<476, 1605>> @@ 22435 :> <<4903, 523>> @@ 23020 :> <<589, 2681>>)))) @@
    (((((29020 :> <<1028, 1024>> @@ 31397 :> <<1930, 3502>> @@ 32513 :> <<2881, 4909>>) @@
    (33214 :> <<1933, 885>> @@ 36296 :> <<6493, 3215>> @@ 38673 :> <<6738, 4260>>)) @@
    ((39147 :> <<6324, 744>> @@ 39892 :> <<5542, 1539>> @@ 40200 :> <<4387, 4777>>) @@
    (45537 :> <<8479, 2551>> @@ 46687 :> <<5, 1300>> @@ 49655 :> <<5681, 424>>))) @@
    (((50379 :> <<6770, 2033>> @@ 51021 :> <<1761, 2358>> @@ 52032 :> <<5425, 1162>>) @@
    (53077 :> <<6412, 3235>> @@ 54502 :> <<1139, 3810>> @@ 55928 :> <<4792, 1334>>)) @@
    (59010 :> <<4384, 4071>> @@ 63340 :> <<466, 2514>> @@ 64580 :> <<9847, 3100>>))) @@
    ((((68503 :> <<1559, 21>> @@ 69204 :> <<7352, 2764>> @@ 69789 :> <<9827, 661>>) @@
    (71214 :> <<5186, 4259>> @@ 71856 :> <<42, 4047>> @@ 74436 :> <<6941, 447>>)) @@
    (75137 :> <<2489, 712>> @@ 80092 :> <<5628, 3178>> @@ 83975 :> <<9808, 459>>)) @@
    (((86709 :> <<5974, 2394>> @@ 91654 :> <<6956, 1738>> @@ 93985 :> <<9590, 565>>) @@
    (95271 :> <<340, 241>> @@ 96953 :> <<797, 4879>> @@ 98239 :> <<1277, 387>>)) @@
    (99330 :> <<9438, 2715>> @@ 214000 :> <<462, 1736>> @@ 253892 :> <<5454, 2130>>)))))) @@
    (((((((309800 :> <<1547, 3898>> @@ 322800 :> <<9078, 206>> @@ 349692 :> <<9277, 2164>>) @@
    (362692 :> <<561, 66>> @@ 419600 :> <<7003, 1913>> @@ 459492 :> <<331, 1124>>)) @@
    ((579400 :> <<6182, 2127>> @@ 619292 :> <<1395, 3895>> @@ 849000 :> <<9151, 3740>>) @@
    (888892 :> <<3023, 2097>> @@ 891600 :> <<7750, 2258>> @@ 931492 :> <<704, 3607>>))) @@
    (((956400 :> <<4062, 1692>> @@ 996292 :> <<6907, 3244>> @@ 1118600 :> <<3521, 4857>>) @@
    (1158492 :> <<7975, 2631>> @@ 1158800 :> <<4977, 1982>> @@ 1198692 :> <<7505, 2801>>)) @@
    (1428400 :> <<1582, 2476>> @@ 1468292 :> <<2628, 1582>> @@ 1468600 :> <<9658, 1337>>))) @@
    ((((1508492 :> <<3818, 914>> @@ 1525200 :> <<2770, 2261>> @@ 1565092 :> <<6703, 202>>) @@
    (1738200 :> <<1498, 2769>> @@ 1778092 :> <<6051, 1143>> @@ 1997200 :> <<92, 2552>>)) @@
    (2007800 :> <<4322, 3686>> @@ 2037092 :> <<1582, 1111>> @@ 2047692 :> <<3783, 1989>>)) @@
    (((2062000 :> <<2018, 466>> @@ 2101892 :> <<7251, 929>> @@ 2277400 :> <<5347, 756>>) @@
    (2317292 :> <<7819, 4615>> @@ 2534000 :> <<2771, 1215>> @@ 2573892 :> <<8424, 1343>>)) @@
    (2630800 :> <<2010, 830>> @@ 2670692 :> <<2464, 1429>> @@ 2897000 :> <<6575, 2605>>)))) @@
    (((((2936892 :> <<3234, 1652>> @@ 3102800 :> <<6093, 4436>> @@ 3142692 :> <<5727, 4220>>) @@
    (3166600 :> <<3880, 4870>> @@ 3167600 :> <<7866, 2684>> @@ 3206492 :> <<9750, 4319>>)) @@
    ((3207492 :> <<7455, 4234>> @@ 3425600 :> <<917, 287>> @@ 3436200 :> <<5958, 4205>>) @@
    (3465492 :> <<9064, 650>> @@ 3476092 :> <<7737, 864>> @@ 3639600 :> <<8059, 1291>>))) @@
    (((3679492 :> <<9561, 2046>> @@ 3736400 :> <<6807, 1657>> @@ 3776292 :> <<1618, 3859>>) @@
    (3994400 :> <<1378, 253>> @@ 4034292 :> <<9065, 942>> @@ 4208400 :> <<8198, 1777>>)) @@
    (4248292 :> <<3864, 3491>> @@ 4273200 :> <<2289, 214>> @@ 4313092 :> <<4910, 4797>>))) @@
    ((((4325400 :> <<3971, 4115>> @@ 4365292 :> <<6601, 2472>> @@ 4382000 :> <<6922, 3182>>) @@
    (4421892 :> <<6398, 4933>> @@ 4595000 :> <<3270, 4511>> @@ 4634892 :> <<5247, 4050>>)) @@
    (4842000 :> <<8720, 3945>> @@ 4881892 :> <<6573, 1093>> @@ 4950800 :> <<3723, 1428>>)) @@
    (((4990692 :> <<5338, 4344>> @@ 5378800 :> <<4956, 3304>> @@ 5418692 :> <<8117, 1758>>) @@
    (5487600 :> <<5223, 2323>> @@ 5527492 :> <<8719, 998>> @@ 5584400 :> <<6413, 4091>>)) @@
    (5624292 :> <<5255, 4409>> @@ 5753800 :> <<929, 2770>> @@ 5793692 :> <<4171, 1284>>))))) @@
    ((((((5798400 :> <<3537, 3755>> @@ 5838292 :> <<9204, 2453>> @@ 6056400 :> <<1984, 2028>>) @@
    (6096292 :> <<7615, 109>> @@ 6121200 :> <<5719, 672>> @@ 6161092 :> <<8536, 115>>)) @@
    ((6335200 :> <<8259, 2607>> @@ 6375092 :> <<4034, 595>> @@ 6593200 :> <<8109, 2410>>) @@
    (6633092 :> <<6862, 1713>> @@ 6690000 :> <<8825, 2150>> @@ 6729892 :> <<5471, 3227>>))) @@
    (((7162000 :> <<8049, 4539>> @@ 7201892 :> <<9111, 2987>> @@ 7226800 :> <<9803, 4785>>) @@
    (7266692 :> <<2166, 2715>> @@ 7698800 :> <<3000, 243>> @@ 7738692 :> <<3997, 2879>>)) @@
    (7795600 :> <<5314, 4149>> @@ 7835492 :> <<1188, 2293>> @@ 8267600 :> <<3729, 3245>>))) @@
    ((((8307492 :> <<3673, 3990>> @@ 8332400 :> <<5082, 4803>> @@ 8372292 :> <<9420, 437>>) @@
    (8901200 :> <<4987, 1484>> @@ 8941092 :> <<2165, 4942>> @@ 9438000 :> <<4485, 2079>>)) @@
    (9477892 :> <<1739, 1382>> @@ 9546800 :> <<3239, 4468>> @@ 9586692 :> <<4783, 2743>>)) @@
    (((10115600 :> <<8732, 3569>> @@ 10155492 :> <<9894, 1558>> @@ 10652400 :> <<9967, 1214>>) @@
    (10692292 :> <<8178, 2691>> @@ 10749200 :> <<9237, 4910>> @@ 10789092 :> <<5995, 858>>)) @@
    (11221200 :> <<3486, 3206>> @@ 11261092 :> <<3342, 4927>> @@ 11286000 :> <<1827, 3250>>)))) @@
    (((((11325892 :> <<8284, 286>> @@ 11758000 :> <<5394, 637>> @@ 11797892 :> <<45, 2740>>) @@
    (11854800 :> <<9114, 3930>> @@ 11894692 :> <<6496, 565>> @@ 12326800 :> <<4224, 2796>>)) @@
    ((12366692 :> <<7460, 2198>> @@ 12391600 :> <<7798, 3036>> @@ 12431492 :> <<6548, 1532>>) @@
    (12960400 :> <<1120, 3210>> @@ 13000292 :> <<3789, 4076>> @@ 13497200 :> <<4879, 4240>>))) @@
    (((13537092 :> <<139, 2052>> @@ 14711600 :> <<6820, 4943>> @@ 14751492 :> <<7970, 807>>) @@
    (15280400 :> <<6890, 2956>> @@ 15320292 :> <<1237, 4466>> @@ 15817200 :> <<7835, 3571>>)) @@
    (15857092 :> <<5875, 3352>> @@ 15914000 :> <<6752, 2860>> @@ 15953892 :> <<43, 1300>>))) @@
    ((((16386000 :> <<5437, 3730>> @@ 16425892 :> <<5710, 1774>> @@ 16450800 :> <<7475, 4324>>) @@
    (16490692 :> <<2205, 4281>> @@ 17019600 :> <<998, 2141>> @@ 17059492 :> <<1694, 3428>>)) @@
    (17556400 :> <<995, 1403>> @@ 17596292 :> <<6494, 577>> @@ 19876400 :> <<7730, 1466>>)) @@
    (((19916292 :> <<119, 2839>> @@ 20445200 :> <<1580, 2099>> @@ 20485092 :> <<6428, 2367>>) @@
    (21078800 :> <<1091, 902>> @@ 21118692 :> <<7493, 3484>> @@ 21615600 :> <<3993, 4192>>)) @@
    (21655492 :> <<9203, 1792>>)))))))

PyTupleHashTable ==
    ((((((<<-600, -600, 0>> :> 2683 @@ <<-600, -600, 4>> :> 38673 @@ <<-600, -200, 0>> :> 616) @@
    (<<-600, -200, 4>> :> 31397 @@ <<-600, 200, 0>> :> 16042 @@ <<-600, 200, 4>> :> 52032)) @@
    (<<-600, 600, 0>> :> 63340 @@ <<-600, 600, 4>> :> 99330 @@ <<-600, 1000, 0>> :> 83975)) @@
    ((<<-600, 1000, 4>> :> 19965 @@ <<-200, -600, 0>> :> 71856 @@ <<-200, -600, 4>> :> 51021) @@
    (<<-200, -200, 0>> :> 64580 @@ <<-200, -200, 4>> :> 570 @@ <<-200, 200, 0>> :> 71214))) @@
    (((<<-200, 200, 4>> :> 50379 @@ <<-200, 600, 0>> :> 18512 @@ <<-200, 600, 4>> :> 54502) @@
    (<<-200, 1000, 0>> :> 39147 @@ <<-200, 1000, 4>> :> 18312 @@ <<200, -600, 0>> :> 23020)) @@
    ((<<200, -600, 4>> :> 59010 @@ <<200, -200, 0>> :> 95271 @@ <<200, -200, 4>> :> 74436) @@
    (<<200, 200, 0>> :> 10697 @@ <<200, 200, 4>> :> 46687 @@ <<200, 600, 0>> :> 6379)))) @@
    ((((<<200, 600, 4>> :> 93985 @@ <<200, 1000, 0>> :> 55928 @@ <<200, 1000, 4>> :> 86709) @@
    (<<600, -600, 0>> :> 69789 @@ <<600, -600, 4>> :> 570 @@ <<600, -200, 0>> :> 17087)) @@
    ((<<600, -200, 4>> :> 53077 @@ <<600, 200, 0>> :> 32513 @@ <<600, 200, 4>> :> 68503) @@
    (<<600, 600, 0>> :> 39147 @@ <<600, 600, 4>> :> 75137 @@ <<600, 1000, 0>> :> 91654))) @@
    (((<<600, 1000, 4>> :> 22435 @@ <<1000, -600, 0>> :> 5515 @@ <<1000, -600, 4>> :> 36296) @@
    (<<1000, -200, 0>> :> 98239 @@ <<1000, -200, 4>> :> 29020 @@ <<1000, 200, 0>> :> 45537)) @@
    ((<<1000, 200, 4>> :> 49655 @@ <<1000, 600, 0>> :> 17788 @@ <<1000, 600, 4>> :> 96953) @@
    (<<1000, 1000, 0>> :> 33214 @@ <<1000, 1000, 4>> :> 69204)))))

PyRandom(seed) == PyRandomTable[seed]

PyTupleHash(px, pz, seed) == PyTupleHashTable[<<px, pz, seed>>]

---------------------------------------------------------------------------
(* class WallState *)

\* An Enum member has a name and the value auto() gave it.
INTACT == [name |-> "INTACT", value |-> 1]

CRACKED == [name |-> "CRACKED", value |-> 2]

\* Faulty variant: the third rung of the ladder is the BREAKING member.
FRACTURED_breaking == [name |-> "BREAKING", value |-> 4]

FRACTURED == [name |-> "FRACTURED", value |-> 3]

BREAKING == [name |-> "BREAKING", value |-> 4]

DESTROYED == [name |-> "DESTROYED", value |-> 5]

WallState == {INTACT, CRACKED, FRACTURED, BREAKING, DESTROYED}

\* World.__init__
World(world_seed) ==
    [world_seed        |-> world_seed,
     pillar_cache      |-> EmptyMap,
     wall_cache        |-> EmptyMap,
     zone_cache        |-> EmptyMap,
     lamp_cache        |-> EmptyMap,
     trap_cache        |-> EmptyMap,
     destroyed_walls   |-> {},
     destroyed_pillars |-> {},
     destroyed_lamps   |-> {},
     triggered_traps   |-> {},
     pre_damaged_walls |-> EmptyMap,
     wall_states       |-> EmptyMap,
     wall_health       |-> EmptyMap,
     wall_cracks       |-> EmptyMap,
     debris_pieces     |-> <<>>,
     spawned_rubble    |-> {},
     spawned           |-> 0]    \* particles created so far (numbers the debris)

\* What a call hands back: the World after it, the return value, the events
\* emitted on the event bus, whether destroy_sound.play() was called, and
\* whether the call ended in an exception instead of returning.
Result(w, ret, events, sound) ==
    [w |-> w, ret |-> ret, events |-> events, sound |-> sound, raised |-> FALSE]

Ret(w, ret) == Result(w, ret, <<>>, FALSE)

\* The call left the World as w and raised an exception.
Raised(w) ==
    [w |-> w, ret |-> FALSE, events |-> <<>>, sound |-> FALSE, raised |-> TRUE]

---------------------------------------------------------------------------
(* Zones *)

\* get_zone_at(x, z) for the midpoint x = xx / 2, z = zz / 2 of a wall:
\* int(x // ZONE_SIZE) is the floor of xx / (2 * ZONE_SIZE).
get_zone_at(xx, zz) == <<xx \div (2 * ZONE_SIZE), zz \div (2 * ZONE_SIZE)>>

get_zone_properties(w, zone_x, zone_z) ==
    LET key == <<zone_x, zone_z>> IN
    IF key \in DOMAIN w.zone_cache
    THEN Ret(w, w.zone_cache[key])
    ELSE LET props == ProceduralZone_get_zone_properties(zone_x, zone_z, w.world_seed)
         IN  Ret([w EXCEPT !.zone_cache = Put(@, key, props)], props)

---------------------------------------------------------------------------
(* Pillar queries *)

PillarProbability ==
    CASE PILLAR_MODE = "sparse" -> One \div 10
      [] PILLAR_MODE = "normal" -> (3 * One) \div 10
      [] PILLAR_MODE = "dense"  -> (6 * One) \div 10
      [] OTHER                  -> 0

has_pillar_at(w, px, pz) ==
    LET key == <<px, pz>>
        offset == PILLAR_SPACING \div 2
        is_on_pillar_grid ==
            (px % PILLAR_SPACING = offset) /\ (pz % PILLAR_SPACING = offset)
        cache(v) == Ret([w EXCEPT !.pillar_cache = Put(@, key, v)], v)
    IN  IF key \in DOMAIN w.pillar_cache THEN Ret(w, w.pillar_cache[key])
        ELSE IF PILLAR_MODE = "none" THEN cache(FALSE)
        ELSE IF ~is_on_pillar_grid THEN cache(FALSE)
        ELSE IF PILLAR_MODE = "all" THEN cache(TRUE)
        ELSE LET seed == PyTupleHash(px, pz, w.world_seed)
                 rng == PyRandom(seed)
             IN  cache(rng[1] < PillarProbability)

is_pillar_destroyed(w, pillar_key) == pillar_key \in w.destroyed_pillars

---------------------------------------------------------------------------
(* Wall queries *)

\* Python's order on pairs, as sorted() uses it.
TupleLeq(a, b) == a[1] < b[1] \/ (a[1] = b[1] /\ a[2] <= b[2])

\* Faulty variant: the key keeps the argument order instead of sorting.
WallKey_unsorted(x1, z1, x2, z2) == <<<<x1, z1>>, <<x2, z2>>>>

\* tuple(sorted([(x1, z1), (x2, z2)]))
WallKey(x1, z1, x2, z2) ==
    IF TupleLeq(<<x1, z1>>, <<x2, z2>>) THEN <<<<x1, z1>>, <<x2, z2>>>>
                                        ELSE <<<<x2, z2>>, <<x1, z1>>>>

\* Faulty variant: the memoised answer is never consulted.
InWallCache_never(w, key) == FALSE

(* if key in self.wall_cache: the memoised answer is returned untouched.   *)
InWallCache(w, key) == key \in DOMAIN w.wall_cache

has_wall_between(w, x1, z1, x2, z2) ==
    LET key == WallKey(x1, z1, x2, z2)
        is_horizontal == (z1 = z2)
        is_vertical == (x1 = x2)
        zone == get_zone_at(x1 + x2, z1 + z2)
        zp == get_zone_properties(w, zone[1], zone[2])
        decay_seed == x1 * 7919 + z1 * 6577 + x2 * 4993 + z2 * 3571
                      + w.world_seed * 9973
        rng == PyRandom(decay_seed)
        damage == rng[2]
        rolled ==
            IF key \in DOMAIN w.pre_damaged_walls THEN w
            ELSE IF rng[1] < zp.ret.decay_chance
                 THEN [zp.w EXCEPT
                         !.pre_damaged_walls = Put(@, key, damage),
                         !.destroyed_walls =
                             IF damage < (2 * One) \div 10 THEN @ \cup {key} ELSE @]
                 ELSE zp.w
    IN  IF InWallCache(w, key) THEN Ret(w, w.wall_cache[key])
        ELSE IF ~(is_horizontal \/ is_vertical)
             THEN Ret([w EXCEPT !.wall_cache = Put(@, key, FALSE)], FALSE)
        ELSE Ret([rolled EXCEPT !.wall_cache = Put(@, key, TRUE)], TRUE)

is_wall_destroyed(w, wall_key) == wall_key \in w.destroyed_walls

get_wall_damage(w, wall_key) == Get(w.pre_damaged_walls, wall_key, One)

get_doorway_type(w, x1, z1, x2, z2) ==
    LET is_horizontal == (z1 = z2)
        door_seed ==
            IF is_horizontal
            THEN z1 * 3571 + ((x1 + x2) \div 2) * 2897 + w.world_seed * 9973
            ELSE x1 * 3571 + ((z1 + z2) \div 2) * 2897 + w.world_seed * 9973
        roll == PyRandom(door_seed)[1]
    IN  IF roll < (3 * One) \div 10 THEN "hallway"
        ELSE IF roll < (5 * One) \div 10 THEN "doorway"
        ELSE "none"

---------------------------------------------------------------------------
(* Progressive wall damage *)

get_wall_state(w, wall_key) ==
    IF wall_key \in w.destroyed_walls THEN DESTROYED
    ELSE Get(w.wall_states, wall_key, INTACT)

\* Faulty variant: the stored health is reported even for a destroyed wall.
get_wall_health_stored(w, wall_key) == Get(w.wall_health, wall_key, One)

get_wall_health(w, wall_key) ==
    IF wall_key \in w.destroyed_walls THEN 0
    ELSE Get(w.wall_health, wall_key, One)

get_wall_cracks(w, wall_key) == Get(w.wall_cracks, wall_key, <<>>)

\* The (x, z) of the wall's centre, doubled so that it stays an integer.
get_wall_center(wall_key) ==
    <<wall_key[1][1] + wall_key[2][1], wall_key[1][2] + wall_key[2][2]>>

\* _add_crack with no hit position: crack is the (u, v, angle, length) the
\* unseeded random module produced.
add_crack(w, wall_key, crack) ==
    [w EXCEPT !.wall_cracks =
        Put(@, wall_key, Append(Get(@, wall_key, <<>>), crack))]

---------------------------------------------------------------------------
(* Randomness of the unseeded random module (debris positions, cracks):    *)
(* one draw r in 0..DrawMax per call stands for its random values,         *)
(* random.uniform(lo, hi) being lo + (hi - lo) * r / DrawMax.              *)

DrawMax == 2

Draws == 0..DrawMax

Uniform(lo, hi, r) == lo + ((hi - lo) * r) \div DrawMax

\* (u, v, angle, length) of _add_crack: uniform(0.1, 0.9) twice,
\* uniform(0, pi), uniform(0.1, 0.4).
Crack(r) ==
    <<Uniform(One \div 10, (9 * One) \div 10, r),
      Uniform(One \div 10, (9 * One) \div 10, r),
      Uniform(0, 31415, r),
      Uniform(One \div 10, (4 * One) \div 10, r)>>

---------------------------------------------------------------------------
(* Debris.  A piece of debris is [serial, cx, cz, is_settled]: serial is   *)
(* the order of creation, (cx, cz) the horizontal position.  debris.py is  *)
(* not part of the sources at hand: Debris(pos, color, velocity) is        *)
(* settled exactly when velocity is None, and starts active.  Every piece  *)
(* in debris_pieces is active between two calls, update_debris being the   *)
(* only place that deactivates and it compacts before it returns.          *)

Debris(serial, cx, cz, velocity) ==
    [serial |-> serial, cx |-> cx, cz |-> cz, is_settled |-> ~velocity]

\* Debris.update(dt, floor_y): whether the piece is still active afterwards.
\* fate stands for the piece's own rule: with fate = m > 0 the pieces whose
\* serial is a multiple of m expire during this update, with fate = 0 none.
Debris_update(d, dt, fate) == ~(fate > 0 /\ d.serial % fate = 0)

\* n pieces at (cx, cz), appended in the order of creation.
Burst(w, n, cx, cz, velocity) ==
    [w EXCEPT
       !.debris_pieces =
           @ \o [i \in 1..n |-> Debris(w.spawned + i, cx, cz, velocity)],
       !.spawned = @ + n]

\* Where spawn_wall_debris puts the debris of a wall: the wall's centre,
\* offset along the wall and across it.
WallDebrisCentre(wall_key, r) ==
    LET x1 == wall_key[1][1]
        z1 == wall_key[1][2]
        x2 == wall_key[2][1]
        z2 == wall_key[2][2]
        cx == (x1 + x2) \div 2
        cz == (z1 + z2) \div 2
        offset_x == Uniform(-(PILLAR_SPACING \div 2), PILLAR_SPACING \div 2, r)
        offset_z == Uniform(-WALL_THICKNESS, WALL_THICKNESS, r)
    IN  IF x1 = x2 THEN <<cx + offset_z, cz + offset_x>>
                   ELSE <<cx + offset_x, cz + offset_z>>

spawn_wall_debris(w, wall_key, r) ==
    LET centre == WallDebrisCentre(wall_key, r)
    IN  Burst(w, 150, centre[1], centre[2], TRUE)

Event(type, key) == [type |-> type, key |-> key]

(* The three thresholds of hit_wall, tested in this order after the new     *)
(* health has been stored.                                                 *)
\* Faulty variant: a wall at exactly zero health is left standing.
HealthGone_strict(health) == health < 0

HealthGone(health) == health <= 0

\* Faulty variant: the FRACTURED transition forgets to test the state.
ShouldFracture_always(health, state) == health <= (33 * One) \div 100

ShouldFracture(health, state) ==
    health <= (33 * One) \div 100 /\ state # FRACTURED

\* Faulty variant: the CRACKED transition forgets to test for INTACT.
ShouldCrack_again(health, state) == health <= (66 * One) \div 100

ShouldCrack(health, state) ==
    health <= (66 * One) \div 100 /\ state = INTACT

hit_wall(w, wall_key, damage, r) ==
    IF wall_key \in w.destroyed_walls THEN Ret(w, FALSE)
    ELSE
    LET w1 == IF wall_key \notin DOMAIN w.wall_health
              THEN [w EXCEPT !.wall_health = Put(@, wall_key, One),
                             !.wall_states = Put(@, wall_key, INTACT)]
              ELSE w
        health == w1.wall_health[wall_key] - damage
        w2 == [w1 EXCEPT !.wall_health = Put(@, wall_key, health)]
    IN  IF HealthGone(health)
        THEN Result(spawn_wall_debris(
                        [w2 EXCEPT !.destroyed_walls = @ \cup {wall_key},
                                   !.wall_states = Put(@, wall_key, DESTROYED)],
                        wall_key, r),
                    TRUE, <<Event("WALL_DESTROYED", wall_key)>>, FALSE)
        ELSE IF ShouldFracture(health, w2.wall_states[wall_key])
        THEN Result(add_crack(add_crack(
                        [w2 EXCEPT !.wall_states = Put(@, wall_key, FRACTURED)],
                        wall_key, Crack(r)), wall_key, Crack(r)),
                    FALSE, <<Event("WALL_FRACTURED", wall_key)>>, FALSE)
        ELSE IF ShouldCrack(health, w2.wall_states[wall_key])
        THEN Result(add_crack(
                        [w2 EXCEPT !.wall_states = Put(@, wall_key, CRACKED)],
                        wall_key, Crack(r)),
                    FALSE, <<Event("WALL_CRACKED", wall_key)>>, FALSE)
        ELSE Ret(w2, FALSE)

\* Faulty variant: destruction also rewrites the memoised query answer.
destroy_wall_uncache(w, wall_key, destroy_sound, r) ==
    IF wall_key \in w.destroyed_walls THEN Ret(w, FALSE)
    ELSE Result(spawn_wall_debris(
                    [w EXCEPT !.destroyed_walls = @ \cup {wall_key},
                              !.wall_states = Put(@, wall_key, DESTROYED),
                              !.wall_health = Put(@, wall_key, 0),
                              !.wall_cache = Put(@, wall_key, FALSE)],
                    wall_key, r),
                FALSE, <<Event("WALL_DESTROYED", wall_key)>>, destroy_sound)

\* Faulty variant: a second destroy_wall undoes the first.
destroy_wall_toggling(w, wall_key, destroy_sound, r) ==
    IF wall_key \in w.destroyed_walls
    THEN Ret([w EXCEPT !.destroyed_walls = @ \ {wall_key}], FALSE)
    ELSE Result(spawn_wall_debris(
                    [w EXCEPT !.destroyed_walls = @ \cup {wall_key},
                              !.wall_states = Put(@, wall_key, DESTROYED),
                              !.wall_health = Put(@, wall_key, 0)],
                    wall_key, r),
                FALSE, <<Event("WALL_DESTROYED", wall_key)>>, destroy_sound)

destroy_wall(w, wall_key, destroy_sound, r) ==
    IF wall_key \in w.destroyed_walls THEN Ret(w, FALSE)
    ELSE Result(spawn_wall_debris(
                    [w EXCEPT !.destroyed_walls = @ \cup {wall_key},
                              !.wall_states = Put(@, wall_key, DESTROYED),
                              !.wall_health = Put(@, wall_key, 0)],
                    wall_key, r),
                FALSE, <<Event("WALL_DESTROYED", wall_key)>>, destroy_sound)

\* Faulty variant: without the guard, a destroyed pillar bursts again.
destroy_pillar_again(w, pillar_key, destroy_sound, r) ==
    Result(Burst([w EXCEPT !.destroyed_pillars = @ \cup {pillar_key}],
                 200, pillar_key[1], pillar_key[2], TRUE),
           FALSE, <<Event("PILLAR_DESTROYED", pillar_key)>>, destroy_sound)

destroy_pillar(w, pillar_key, destroy_sound, r) ==
    IF pillar_key \in w.destroyed_pillars THEN Ret(w, FALSE)
    ELSE Result(Burst([w EXCEPT !.destroyed_pillars = @ \cup {pillar_key}],
                      200, pillar_key[1], pillar_key[2], TRUE),
                FALSE, <<Event("PILLAR_DESTROYED", pillar_key)>>, destroy_sound)

\* Faulty variant: the pile is spawned without being marked as spawned.
spawn_rubble_pile_unmarked(w, x1, z1, x2, z2, r) ==
    LET wall_key == WallKey(x1, z1, x2, z2)
        half_thick == WALL_THICKNESS \div 2
        min_x == IF x1 = x2 THEN x1 - half_thick ELSE Min(x1, x2)
        max_x == IF x1 = x2 THEN x1 + half_thick ELSE Max(x1, x2)
        min_z == IF x1 = x2 THEN Min(z1, z2) ELSE z1 - half_thick
        max_z == IF x1 = x2 THEN Max(z1, z2) ELSE z1 + half_thick
    IN  IF wall_key \in w.spawned_rubble THEN Ret(w, FALSE)
        ELSE Ret(Burst(w, 80, Uniform(min_x, max_x, r), Uniform(min_z, max_z, r),
                       FALSE),
                 FALSE)

spawn_rubble_pile(w, x1, z1, x2, z2, r) ==
    LET wall_key == WallKey(x1, z1, x2, z2)
        half_thick == WALL_THICKNESS \div 2
        min_x == IF x1 = x2 THEN x1 - half_thick ELSE Min(x1, x2)
        max_x == IF x1 = x2 THEN x1 + half_thick ELSE Max(x1, x2)
        min_z == IF x1 = x2 THEN Min(z1, z2) ELSE z1 - half_thick
        max_z == IF x1 = x2 THEN Max(z1, z2) ELSE z1 + half_thick
    IN  IF wall_key \in w.spawned_rubble THEN Ret(w, FALSE)
        ELSE Ret(Burst([w EXCEPT !.spawned_rubble = @ \cup {wall_key}],
                       80, Uniform(min_x, max_x, r), Uniform(min_z, max_z, r),
                       FALSE),
                 FALSE)

MAX_DEBRIS == 12000

DEBRIS_CULL_DIST == 900

\* Faulty variant: the cap keeps the head of the list, not its tail.
EnforceCap_oldest(pieces) ==
    IF Len(pieces) > MAX_DEBRIS THEN SubSeq(pieces, 1, MAX_DEBRIS) ELSE pieces

(* if len(self.debris_pieces) > MAX_DEBRIS: keep [-MAX_DEBRIS:]            *)
EnforceCap(pieces) ==
    IF Len(pieces) > MAX_DEBRIS
    THEN SubSeq(pieces, Len(pieces) - MAX_DEBRIS + 1, Len(pieces))
    ELSE pieces

update_debris(w, dt, player_x, player_z, fate) ==
    LET active(d) ==
            /\ Debris_update(d, dt, fate)
            /\ ~((d.cx - player_x) * (d.cx - player_x)
                 + (d.cz - player_z) * (d.cz - player_z)
                 > DEBRIS_CULL_DIST * DEBRIS_CULL_DIST)
        kept == SelectSeq(w.debris_pieces, active)
    IN  Ret([w EXCEPT !.debris_pieces = EnforceCap(kept)], FALSE)

---------------------------------------------------------------------------
(* Collision queries.  The position handed to check_collision is a pair of *)
(* Python floats, which may be NaN or an infinity: a float is modelled as  *)
(* a record telling which kind it is, with its value v when it is finite.  *)

Float(v) == [kind |-> "finite", v |-> v]

NaN == [kind |-> "nan", v |-> 0]

Infinity == [kind |-> "inf", v |-> 0]

NegInfinity == [kind |-> "-inf", v |-> 0]

\* math.isfinite(x)
isfinite(x) == x.kind = "finite"

player_radius == 15

OpeningWidth(opening_type) ==
    IF opening_type = "hallway" THEN HALLWAY_WIDTH
    ELSE IF opening_type = "doorway" THEN 60
    ELSE 0

\* A wall running from start to end along one axis (coordinate along) and
\* lying at position at on the other (coordinate across).  Comparisons are
\* doubled where the code halves.
WallBlocks(opening_width, start, end, at, along, across) ==
    IF opening_width > 0
    THEN /\ 2 * Abs(across - at) < WALL_THICKNESS + 2 * player_radius
         /\ \/ /\ start <= along
               /\ 2 * along <= 2 * start + (PILLAR_SPACING - opening_width)
                               - 2 * player_radius
            \/ /\ 2 * start + (PILLAR_SPACING - opening_width)
                    + 2 * opening_width + 2 * player_radius <= 2 * along
               /\ along <= end
    ELSE /\ start - player_radius <= along
         /\ along <= end + player_radius
         /\ 2 * Abs(across - at) < WALL_THICKNESS + 2 * player_radius

PillarBlocks(pillar_x, pillar_z, x, z) ==
    LET closest_x == Max(pillar_x, Min(x, pillar_x + PILLAR_SIZE))
        closest_z == Max(pillar_z, Min(z, pillar_z + PILLAR_SIZE))
        dist_x == x - closest_x
        dist_z == z - closest_z
    IN  dist_x * dist_x + dist_z * dist_z < player_radius * player_radius

\* One pass of the loop body at lattice cell (px_grid, pz_grid): the World
\* after it and whether the function returns True there.  A destroyed wall
\* ends the pass (continue), skipping what follows in the body.
CheckCell(w, px_grid, pz_grid, x, z) ==
    LET S == PILLAR_SPACING
        h == has_wall_between(w, px_grid, pz_grid, px_grid + S, pz_grid)
        hkey == WallKey(px_grid, pz_grid, px_grid + S, pz_grid)
        hblocks == WallBlocks(
            OpeningWidth(get_doorway_type(h.w, px_grid, pz_grid, px_grid + S, pz_grid)),
            px_grid, px_grid + S, pz_grid, x, z)
        v == has_wall_between(h.w, px_grid, pz_grid, px_grid, pz_grid + S)
        vkey == WallKey(px_grid, pz_grid, px_grid, pz_grid + S)
        vblocks == WallBlocks(
            OpeningWidth(get_doorway_type(v.w, px_grid, pz_grid, px_grid, pz_grid + S)),
            pz_grid, pz_grid + S, px_grid, z, x)
        pillar_x == px_grid + S \div 2
        pillar_z == pz_grid + S \div 2
        p == has_pillar_at(v.w, pillar_x, pillar_z)
    IN  IF h.ret /\ hkey \in h.w.destroyed_walls THEN Ret(h.w, FALSE)
        ELSE IF h.ret /\ hblocks THEN Ret(h.w, TRUE)
        ELSE IF v.ret /\ vkey \in v.w.destroyed_walls THEN Ret(v.w, FALSE)
        ELSE IF v.ret /\ vblocks THEN Ret(v.w, TRUE)
        ELSE Ret(p.w, /\ p.ret
                      /\ <<pillar_x, pillar_z>> \notin p.w.destroyed_pillars
                      /\ PillarBlocks(pillar_x, pillar_z, x, z))

\* The lattice cells of the two nested range() loops, in loop order.
GridRange(lo, hi) ==
    [i \in 1..((hi - lo) \div PILLAR_SPACING + 1) |-> lo + (i - 1) * PILLAR_SPACING]

RECURSIVE CheckCells(_, _, _, _, _, _, _)
CheckCells(w, xs, zs, i, j, x, z) ==
    IF i > Len(xs) THEN Ret(w, FALSE)
    ELSE IF j > Len(zs) THEN CheckCells(w, xs, zs, i + 1, 1, x, z)
    ELSE LET c == CheckCell(w, xs[i], zs[j], x, z)
         IN  IF c.ret THEN c ELSE CheckCells(c.w, xs, zs, i, j + 1, x, z)

\* check_collision from "player_radius = 15.0" on, for finite x and z.
CheckAround(w, x, z) ==
    LET check_range == PILLAR_SPACING * 2
        min_grid_x == ((x - check_range) \div PILLAR_SPACING) * PILLAR_SPACING
        max_grid_x == ((x + check_range) \div PILLAR_SPACING) * PILLAR_SPACING
        min_grid_z == ((z - check_range) \div PILLAR_SPACING) * PILLAR_SPACING
        max_grid_z == ((z + check_range) \div PILLAR_SPACING) * PILLAR_SPACING
    IN  CheckCells(w, GridRange(min_grid_x, max_grid_x),
                   GridRange(min_grid_z, max_grid_z), 1, 1, x, z)

\* Faulty variant: without the isfinite guard.  int() of a NaN raises
\* ValueError, and an infinity floor-divided by PILLAR_SPACING is a NaN.
check_collision_unguarded(w, x, z) ==
    IF ~isfinite(x) \/ ~isfinite(z) THEN Raised(w)
    ELSE CheckAround(w, x.v, z.v)

\* Faulty variant: the scan also enters the health of every wall it has
\* cached into wall_health.
check_collision_recording(w, x, z) ==
    IF ~isfinite(x) \/ ~isfinite(z) THEN Ret(w, TRUE)
    ELSE LET r == CheckAround(w, x.v, z.v)
         IN  Ret([r.w EXCEPT !.wall_health =
                      [k \in DOMAIN r.w.wall_cache |-> get_wall_health(r.w, k)]],
                 r.ret)

check_collision(w, x, z) ==
    IF ~isfinite(x) \/ ~isfinite(z) THEN Ret(w, TRUE)
    ELSE CheckAround(w, x.v, z.v)

---------------------------------------------------------------------------
(* Save and load.  A Python string is the sequence of its characters.      *)
(* str() of a key is what CPython prints for a tuple of ints or a tuple of *)
(* tuples of ints; eval() of such a string is a parse of that text.        *)

DigitChars == <<"0", "1", "2", "3", "4", "5", "6", "7", "8", "9">>

RECURSIVE StrNat(_)
StrNat(n) ==
    IF n < 10 THEN <<DigitChars[n + 1]>>
    ELSE StrNat(n \div 10) \o <<DigitChars[(n % 10) + 1]>>

\* Faulty variant: the sign of a coordinate is lost in the string.
StrInt_unsigned(n) == StrNat(Abs(n))

\* str(n) of an int
StrInt(n) == IF n < 0 THEN <<"-">> \o StrNat(-n) ELSE StrNat(n)

\* str((a, b)) of a pair of ints
StrPoint(p) == <<"(">> \o StrInt(p[1]) \o <<",", " ">> \o StrInt(p[2]) \o <<")">>

\* str(((a, b), (c, d))) of a wall key
StrWallKey(k) ==
    <<"(">> \o StrPoint(k[1]) \o <<",", " ">> \o StrPoint(k[2]) \o <<")">>

DigitValue(c) == CHOOSE d \in 0..9 : DigitChars[d + 1] = c

IsDigit(c) == \E d \in 0..9 : DigitChars[d + 1] = c

Parsed(val, pos) == [ok |-> TRUE, val |-> val, pos |-> pos]

ParseError == [ok |-> FALSE, val |-> <<>>, pos |-> 0]

RECURSIVE SkipSpaces(_, _)
SkipSpaces(s, i) == IF i <= Len(s) /\ s[i] = " " THEN SkipSpaces(s, i + 1) ELSE i

\* The digits from position i on: their value and the position after them.
RECURSIVE ParseDigits(_, _, _)
ParseDigits(s, i, acc) ==
    IF i <= Len(s) /\ IsDigit(s[i])
    THEN ParseDigits(s, i + 1, acc * 10 + DigitValue(s[i]))
    ELSE Parsed(acc, i)

ParseInt(s, i) ==
    IF i <= Len(s) /\ s[i] = "-"
    THEN IF i + 1 <= Len(s) /\ IsDigit(s[i + 1])
         THEN LET p == ParseDigits(s, i + 1, 0) IN Parsed(-p.val, p.pos)
         ELSE ParseError
    ELSE IF i <= Len(s) /\ IsDigit(s[i]) THEN ParseDigits(s, i, 0)
    ELSE ParseError

\* A value is an int or a parenthesised, comma-separated tuple of values.
RECURSIVE ParseValue(_, _), ParseItems(_, _, _)
ParseValue(s, i) ==
    LET j == SkipSpaces(s, i) IN
    IF j <= Len(s) /\ s[j] = "(" THEN ParseItems(s, j + 1, <<>>)
    ELSE ParseInt(s, j)

\* The items of a tuple after its opening parenthesis or after a comma.
ParseItems(s, i, acc) ==
    LET j == SkipSpaces(s, i) IN
    IF j > Len(s) THEN ParseError
    ELSE IF s[j] = ")"
         THEN IF Len(acc) = 1 /\ s[j - 1] # "," THEN ParseError   \* "(x)" is no tuple
              ELSE Parsed(acc, j + 1)
    ELSE LET item == ParseValue(s, j)
             k == SkipSpaces(s, item.pos)
         IN  IF ~item.ok \/ k > Len(s) THEN ParseError
             ELSE IF s[k] = "," THEN ParseItems(s, k + 1, Append(acc, item.val))
             ELSE IF s[k] = ")" THEN
                      IF acc = <<>> THEN ParseError           \* "(x)" is no tuple
                      ELSE Parsed(Append(acc, item.val), k + 1)
             ELSE ParseError

\* eval(k_str) for a text that is either a literal of nested tuples of ints
\* or no Python expression at all: the tuple, or a failure where eval
\* raises SyntaxError.
Eval(s) ==
    LET p == ParseValue(s, 1) IN
    IF p.ok /\ SkipSpaces(s, p.pos) = Len(s) + 1 THEN p ELSE ParseError

\* {keys[k]: m[k] for k in m}: a dict built item by item under new keys, a
\* later item replacing an earlier one that has the same new key.
Rekey(m, keys) ==
    LET RECURSIVE Items(_)
        Items(todo) ==
            IF todo = {} THEN EmptyMap
            ELSE LET k == CHOOSE k \in todo : TRUE
                 IN  (keys[k] :> m[k]) @@ Items(todo \ {k})
    IN  Items(DOMAIN m)

\* {str(k): v for k, v in m.items()} for a dict keyed by wall keys
StrWallKeys(m) == Rekey(m, [k \in DOMAIN m |-> StrWallKey(k)])

\* {str(k): v for k, v in m.items()} for a dict keyed by pillar keys
StrPillarKeys(m) == Rekey(m, [k \in DOMAIN m |-> StrPoint(k)])

\* v.name of a WallState
WallStateName(v) == v.name

\* WallState[v_name]
WallStateNamed(v_name) == CHOOSE v \in WallState : v.name = v_name

\* [list(e) for e in S]: the elements of a set in the order the set is
\* iterated, each turned from a tuple into a list with the same items.
RECURSIVE ListOfSet(_)
ListOfSet(S) ==
    IF S = {} THEN <<>>
    ELSE LET e == CHOOSE e \in S : TRUE
         IN  <<[i \in DOMAIN e |-> e[i]]>> \o ListOfSet(S \ {e})

\* tuple(e): a tuple of the items of a list
Tuple(e) == [i \in DOMAIN e |-> e[i]]

\* tuple(tuple(point) for point in wall)
TupleOfTuples(wall) == [i \in DOMAIN wall |-> Tuple(wall[i])]

\* {tuple(tuple(point) for point in wall) for wall in list}
WallSetOfList(list) == {TupleOfTuples(list[i]) : i \in DOMAIN list}

\* {tuple(e) for e in list}
TupleSetOfList(list) == {Tuple(list[i]) : i \in DOMAIN list}

\* The first n elements of a list: list[:n]
Head_n(s, n) == IF Len(s) > n THEN SubSeq(s, 1, n) ELSE s

get_state_for_save(w) ==
    [seed              |-> w.world_seed,
     wall_cache        |-> StrWallKeys(w.wall_cache),
     pillar_cache      |-> StrPillarKeys(w.pillar_cache),
     destroyed_walls   |-> ListOfSet(w.destroyed_walls),
     destroyed_pillars |-> ListOfSet(w.destroyed_pillars),
     destroyed_lamps   |-> ListOfSet(w.destroyed_lamps),
     triggered_traps   |-> ListOfSet(w.triggered_traps),
     wall_states       |-> StrWallKeys([k \in DOMAIN w.wall_states |->
                                           WallStateName(w.wall_states[k])]),
     wall_health       |-> StrWallKeys(w.wall_health),
     wall_cracks       |-> StrWallKeys(w.wall_cracks),
     pre_damaged_walls |-> StrWallKeys(w.pre_damaged_walls),
     debris_pieces     |-> Head_n(w.debris_pieces, 1000)]

\* data.get(field, default)
DataGet(data, field, default) ==
    IF field \in DOMAIN data THEN data[field] ELSE default

EvalKey(s) == Eval(s).val

\* {eval(k): v for k, v in d.items()}
EvalKeys(d) == Rekey(d, [s \in DOMAIN d |-> EvalKey(s)])

\* The loop "for k_str, v in d.items(): key = eval(k_str); target[key] = v"
\* run on an empty target: the target it leaves, and whether every eval
\* returned.  An eval that raises ends the loop with the items before it
\* loaded; the items are taken in the order the dict is iterated.
EvalLoop(d) ==
    LET RECURSIVE Items(_, _)
        Items(todo, target) ==
            IF todo = {} THEN [ok |-> TRUE, val |-> target]
            ELSE LET s == CHOOSE s \in todo : TRUE
                 IN  IF ~Eval(s).ok THEN [ok |-> FALSE, val |-> target]
                     ELSE Items(todo \ {s}, Put(target, EvalKey(s), d[s]))
    IN  Items(DOMAIN d, EmptyMap)

\* Whether the comprehension {eval(k): v for k, v in d.items()} returns: an
\* eval that raises leaves the attribute it was to be assigned to as it was.
EvalReturns(d) == \A s \in DOMAIN d : Eval(s).ok

\* Faulty variant: a document without a seed resets the seed.
SeedOf_reset(w, data) == DataGet(data, "seed", 0)

\* data.get('seed', self.world_seed)
SeedOf(w, data) == DataGet(data, "seed", w.world_seed)

\* The statements of load_state in their order.  Each ...Loaded is the World
\* after the statements down to that attribute; a statement whose eval
\* raises ends the call there.
load_state(w, data) ==
    LET wall_cache_data == DataGet(data, "wall_cache", EmptyMap)
        pillar_cache_data == DataGet(data, "pillar_cache", EmptyMap)
        wall_states_data == DataGet(data, "wall_states", EmptyMap)
        wall_health_data == DataGet(data, "wall_health", EmptyMap)
        wall_cracks_data == DataGet(data, "wall_cracks", EmptyMap)
        pre_damaged_data == DataGet(data, "pre_damaged_walls", EmptyMap)
        wall_cache == EvalLoop(wall_cache_data)
        pillar_cache == EvalLoop(pillar_cache_data)
        wall_states == EvalLoop(wall_states_data)
        seedLoaded == [w EXCEPT !.world_seed = SeedOf(w, data)]
        wallsLoaded == [seedLoaded EXCEPT !.wall_cache = wall_cache.val]
        pillarsLoaded == [wallsLoaded EXCEPT !.pillar_cache = pillar_cache.val]
        destroyedLoaded ==
            [pillarsLoaded EXCEPT
               !.destroyed_walls   = WallSetOfList(DataGet(data, "destroyed_walls", <<>>)),
               !.destroyed_pillars = TupleSetOfList(DataGet(data, "destroyed_pillars", <<>>)),
               !.destroyed_lamps   = TupleSetOfList(DataGet(data, "destroyed_lamps", <<>>)),
               !.triggered_traps   = TupleSetOfList(DataGet(data, "triggered_traps", <<>>))]
        statesLoaded ==
            [destroyedLoaded EXCEPT
               !.wall_states = [k \in DOMAIN wall_states.val |->
                                    WallStateNamed(wall_states.val[k])]]
        healthLoaded == [statesLoaded EXCEPT !.wall_health = EvalKeys(wall_health_data)]
        cracksLoaded == [healthLoaded EXCEPT !.wall_cracks = EvalKeys(wall_cracks_data)]
        preDamageLoaded ==
            [cracksLoaded EXCEPT !.pre_damaged_walls = EvalKeys(pre_damaged_data)]
    IN  IF ~wall_cache.ok THEN Raised(wallsLoaded)
        ELSE IF ~pillar_cache.ok THEN Raised(pillarsLoaded)
        ELSE IF ~wall_states.ok THEN Raised(statesLoaded)
        ELSE IF ~EvalReturns(wall_health_data) THEN Raised(statesLoaded)
        ELSE IF ~EvalReturns(wall_cracks_data) THEN Raised(healthLoaded)
        ELSE IF ~EvalReturns(pre_damaged_data) THEN Raised(cracksLoaded)
        ELSE Ret([preDamageLoaded EXCEPT
                    !.debris_pieces = DataGet(data, "debris_pieces", <<>>),
                    !.zone_cache    = EmptyMap],
                 FALSE)


---------------------------------------------------------------------------
(* The calls the model makes.  Each action is one call of a World method   *)
(* on one of the two instances, with its inputs drawn from the given sets. *)

Instance(i) == IF i = "world" THEN world ELSE twin

Call(i, op, args, res) ==
    [on |-> i, op |-> op, args |-> args, ret |-> res.ret,
     events |-> res.events, sound |-> res.sound, raised |-> res.raised]

\* The longest run of hits that is counted.
RunMax == 5

NoRun == [key |-> <<>>, n |-> 0, rets |-> <<>>]

Step(i, op, args, res) ==
    /\ IF i = "world" THEN world' = res.w /\ UNCHANGED twin
                      ELSE twin' = res.w /\ UNCHANGED world
    /\ out' = Call(i, op, args, res)
    /\ run' = NoRun

HasWallBetween(on, args) ==
    \E i \in on, a \in args :
        Step(i, "has_wall_between", a,
             has_wall_between(Instance(i), a[1], a[2], a[3], a[4]))

HasPillarAt(on, args) ==
    \E i \in on, a \in args :
        Step(i, "has_pillar_at", a, has_pillar_at(Instance(i), a[1], a[2]))

CheckCollision(on, points) ==
    \E i \in on, a \in points :
        Step(i, "check_collision", a, check_collision(Instance(i), a[1], a[2]))

HitWall(on, keys, damages, draws) ==
    \E i \in on, k \in keys, d \in damages, r \in draws :
        Step(i, "hit_wall", <<k, d>>, hit_wall(Instance(i), k, d, r))

DestroyWall(on, keys, sounds, draws) ==
    \E i \in on, k \in keys, s \in sounds, r \in draws :
        Step(i, "destroy_wall", <<k, s>>, destroy_wall(Instance(i), k, s, r))

DestroyPillar(on, keys, sounds, draws) ==
    \E i \in on, k \in keys, s \in sounds, r \in draws :
        Step(i, "destroy_pillar", <<k, s>>, destroy_pillar(Instance(i), k, s, r))

SpawnRubblePile(on, args, draws) ==
    \E i \in on, a \in args, r \in draws :
        Step(i, "spawn_rubble_pile", a,
             spawn_rubble_pile(Instance(i), a[1], a[2], a[3], a[4], r))

UpdateDebris(on, players, fates) ==
    \E i \in on, p \in players, f \in fates :
        Step(i, "update_debris", <<p, f>>,
             update_debris(Instance(i), 1, p[1], p[2], f))

\* The number of particles an instance may have created and still be
\* loaded into: loads and new bursts cannot alternate for ever.
SpawnedMax == 200

LoadState(on, docs) ==
    \E i \in on, data \in docs :
        /\ Instance(i).spawned <= SpawnedMax
        /\ Step(i, "load_state", <<data>>, load_state(Instance(i), data))

---------------------------------------------------------------------------
(* Inputs *)

Seeds == {0, 4}

K1 == <<<<0, 0>>, <<400, 0>>>>

K2 == <<<<0, 0>>, <<0, 400>>>>

WallKeys == {K1, K2}

\* (x1, z1, x2, z2): a horizontal and a vertical wall, each with its
\* endpoints in both orders, and a pair that is not axis-aligned.
WallArgs ==
    {<<0, 0, 400, 0>>, <<400, 0, 0, 0>>, <<0, 0, 0, 400>>, <<0, 400, 0, 0>>,
     <<0, 0, 400, 400>>}

Damages == {0, One \div 4, (3 * One) \div 4, (3 * One) \div 2}

PillarArgs == {<<200, 200>>, <<0, 0>>}

CollisionPoints == {<<Float(200), Float(200)>>}

---------------------------------------------------------------------------
(* Spec: one World, its wall queries and wall damage calls in any order.   *)

Init ==
    /\ \E s \in Seeds : world = World(s) /\ twin = World(s)
    /\ out = Call("world", "init", <<>>, Ret(0, FALSE))
    /\ run = NoRun

Next ==
    \/ HasWallBetween({"world"}, WallArgs)
    \/ CheckCollision({"world"}, CollisionPoints)
    \/ HitWall({"world"}, {K1}, Damages, {1})
    \/ DestroyWall({"world"}, {K1}, BOOLEAN, {1})

Spec == Init /\ [][Next]_vars

---------------------------------------------------------------------------
(* Properties of the wall state under Spec.                                *)

Rank(state) ==
    CASE state = INTACT -> 0
      [] state = CRACKED -> 1
      [] state = FRACTURED -> 2
      [] state = BREAKING -> 3
      [] state = DESTROYED -> 4

PreDamage(w, key) ==
    IF key \in DOMAIN w.pre_damaged_walls
    THEN <<TRUE, w.pre_damaged_walls[key]>>
    ELSE <<FALSE, 0>>

(* C2: a wall's reported state never moves backwards along                 *)
(* INTACT < CRACKED < FRACTURED < DESTROYED, whatever call is made with    *)
(* whatever damage, and hit_wall on a wall that reports DESTROYED returns  *)
(* False and leaves it DESTROYED.                                          *)
C2_StateNeverRegresses ==
    [][\A k \in WallKeys :
          /\ Rank(get_wall_state(world', k)) >= Rank(get_wall_state(world, k))
          /\ (/\ get_wall_state(world, k) = DESTROYED
              /\ out'.op = "hit_wall"
              /\ out'.args[1] = k)
             => (out'.ret = FALSE /\ get_wall_state(world', k) = DESTROYED)]_vars

\* A wall that went through CRACKED and FRACTURED (three cracks), was then
\* destroyed, and has just been hit again with positive damage to no effect.
C2_Witness ==
    /\ out.op = "hit_wall"
    /\ out.args[1] = K1
    /\ out.args[2] > 0
    /\ out.ret = FALSE
    /\ K1 \in world.destroyed_walls
    /\ Len(get_wall_cracks(world, K1)) = 3
    /\ get_wall_state(world, K1) = DESTROYED

(* C3: every key in destroyed_walls has stored health 0 and stored state   *)
(* DESTROYED.                                                               *)
C3_DestroyedStoredZero ==
    \A k \in world.destroyed_walls :
        /\ k \in DOMAIN world.wall_health
        /\ world.wall_health[k] = 0
        /\ k \in DOMAIN world.wall_states
        /\ world.wall_states[k] = DESTROYED

(* C4: for every key in destroyed_walls the getters report DESTROYED and   *)
(* health 0, whatever wall_states and wall_health hold for it.             *)
C4_DestroyedTakesPrecedence ==
    \A k \in world.destroyed_walls :
        /\ get_wall_state(world, k) = DESTROYED
        /\ get_wall_health(world, k) = 0

\* A destroyed wall whose stored entries say otherwise: positive health
\* and a state short of DESTROYED.
C4_Witness ==
    /\ K1 \in world.destroyed_walls
    /\ K1 \in DOMAIN world.wall_health
    /\ world.wall_health[K1] > 0
    /\ world.wall_states[K1] # DESTROYED

(* C5: a has_wall_between call leaves exactly one cache entry for the      *)
(* wall, under the same key for either order of its endpoints, returns     *)
(* that entry, and changes no entry that was there before.                 *)
C5_OneEntryEitherOrder ==
    [][out'.op = "has_wall_between" =>
          LET a == out'.args
              p == <<a[1], a[2]>>
              q == <<a[3], a[4]>>
              entries == {k \in DOMAIN world'.wall_cache :
                              k = <<p, q>> \/ k = <<q, p>>}
          IN  /\ Cardinality(entries) = 1
              /\ \A k \in entries : out'.ret = world'.wall_cache[k]
              /\ DOMAIN world'.wall_cache = DOMAIN world.wall_cache \cup entries
              /\ \A k \in DOMAIN world.wall_cache :
                     world'.wall_cache[k] = world.wall_cache[k]]_vars

\* The wall was first asked about with its endpoints in sorted order (only
\* that order pre-damages it under these seeds) and has now been asked
\* about in the other order.
C5_Witness ==
    /\ out.op = "has_wall_between"
    /\ out.args = <<400, 0, 0, 0>>
    /\ out.ret = TRUE
    /\ K1 \in DOMAIN world.pre_damaged_walls
    /\ DOMAIN world.wall_cache = {K1}

(* C6: once a wall is in the cache, no later call changes its              *)
(* pre_damaged_walls entry, and no later has_wall_between or               *)
(* check_collision adds it to (or removes it from) destroyed_walls.        *)
C6_PreDamageRolledOnce ==
    [][\A k \in DOMAIN world.wall_cache :
          /\ PreDamage(world', k) = PreDamage(world, k)
          /\ out'.op \in {"has_wall_between", "check_collision"}
             => (k \in world'.destroyed_walls <=> k \in world.destroyed_walls)]_vars

\* The first query came with the endpoints reversed and rolled nothing;
\* the query just made, in sorted order, would have pre-damaged the wall
\* had it rolled.
C6_Witness ==
    /\ out.op = "has_wall_between"
    /\ out.args = <<0, 0, 400, 0>>
    /\ K1 \in DOMAIN world.wall_cache
    /\ K1 \notin DOMAIN world.pre_damaged_walls

---------------------------------------------------------------------------
(* SpecLadder: wall queries, and hit_wall called with its default damage.  *)
(* run counts the hit_wall calls made in a row on one key, starting from a *)
(* key that was fresh (no stored health) and not pre-destroyed; any other  *)
(* call ends the run.                                                      *)

\* def hit_wall(self, wall_key, damage=0.25)
hit_wall_damage == One \div 4

HitWallDefault(keys, draws) ==
    \E k \in keys, r \in draws :
        LET res == hit_wall(world, k, hit_wall_damage, r)
            fresh == k \notin world.destroyed_walls
                     /\ k \notin DOMAIN world.wall_health
        IN  /\ world' = res.w
            /\ UNCHANGED twin
            /\ out' = Call("world", "hit_wall", <<k, hit_wall_damage>>, res)
            /\ run' = IF fresh
                      THEN [key |-> k, n |-> 1, rets |-> <<res.ret>>]
                      ELSE IF run.n >= 1 /\ run.n < RunMax /\ run.key = k
                      THEN [key |-> k, n |-> run.n + 1,
                            rets |-> Append(run.rets, res.ret)]
                      ELSE NoRun

NextLadder ==
    \/ HasWallBetween({"world"}, WallArgs)
    \/ HitWallDefault(WallKeys, {1})

SpecLadder == Init /\ [][NextLadder]_vars

Stored(w, key) == <<w.wall_health[key], w.wall_states[key]>>

(* C1: after the n-th of four successive hit_wall(key, 0.25) calls on a    *)
(* fresh wall that is not pre-destroyed, the stored health and state are   *)
(* 0.75/INTACT, 0.50/CRACKED, 0.25/FRACTURED, 0.00/DESTROYED for           *)
(* n = 1, 2, 3, 4, and the calls returned False, False, False, True.       *)
C1_FourHitLadder ==
    /\ run.n = 1 => /\ Stored(world, run.key) = <<(3 * One) \div 4, INTACT>>
                    /\ run.rets = <<FALSE>>
    /\ run.n = 2 => /\ Stored(world, run.key) = <<One \div 2, CRACKED>>
                    /\ run.rets = <<FALSE, FALSE>>
    /\ run.n = 3 => /\ Stored(world, run.key) = <<One \div 4, FRACTURED>>
                    /\ run.rets = <<FALSE, FALSE, FALSE>>
    /\ run.n = 4 => /\ Stored(world, run.key) = <<0, DESTROYED>>
                    /\ run.key \in world.destroyed_walls
                    /\ run.rets = <<FALSE, FALSE, FALSE, TRUE>>

\* The fourth hit of a run has just returned.
C1_Witness ==
    /\ run.n = 4
    /\ out.op = "hit_wall"
    /\ out.ret = TRUE
    /\ out.events = <<Event("WALL_DESTROYED", run.key)>>

---------------------------------------------------------------------------
(* SpecAll: every query and mutator of World except load_state, on one     *)
(* wall, its two neighbouring pillars and the debris they shed.            *)

FarAway == <<5000, 5000>>

NextAll ==
    \/ HasWallBetween({"world"}, {<<0, 0, 400, 0>>, <<400, 0, 0, 0>>})
    \/ HasPillarAt({"world"}, {<<200, 200>>})
    \/ CheckCollision({"world"}, CollisionPoints)
    \/ HitWall({"world"}, {K1}, {(3 * One) \div 4}, {1})
    \/ DestroyWall({"world"}, {K1}, {TRUE}, {1})
    \/ DestroyPillar({"world"}, {<<200, 200>>}, {TRUE}, {1})
    \/ SpawnRubblePile({"world"}, {<<0, 0, 400, 0>>, <<400, 0, 0, 0>>}, {1})
    \/ UpdateDebris({"world"}, {FarAway}, {0})

SpecAll == Init /\ [][NextAll]_vars

(* C7: a value held by wall_cache or pillar_cache is never changed or      *)
(* removed by has_wall_between, has_pillar_at, check_collision, hit_wall,  *)
(* destroy_wall, destroy_pillar, spawn_rubble_pile or update_debris.       *)
C7_CachedGeometryIsStable ==
    [][/\ \A k \in DOMAIN world.wall_cache :
              /\ k \in DOMAIN world'.wall_cache
              /\ world'.wall_cache[k] = world.wall_cache[k]
       /\ \A k \in DOMAIN world.pillar_cache :
              /\ k \in DOMAIN world'.pillar_cache
              /\ world'.pillar_cache[k] = world.pillar_cache[k]]_vars

\* A wall and a pillar that were cached as existing have since been
\* destroyed and their debris swept away; the cache still says they exist.
C7_Witness ==
    /\ out.op = "update_debris"
    /\ K1 \in DOMAIN world.wall_cache
    /\ world.wall_cache[K1] = TRUE
    /\ K1 \in world.destroyed_walls
    /\ <<200, 200>> \in DOMAIN world.pillar_cache
    /\ world.pillar_cache[<<200, 200>>] = TRUE
    /\ <<200, 200>> \in world.destroyed_pillars
    /\ <<<<0, 0>>, <<400, 0>>>> \in world.spawned_rubble
    /\ world.spawned > 0
    /\ world.debris_pieces = <<>>

---------------------------------------------------------------------------
(* SpecTwin: two World instances built with the same seed, each making its *)
(* own queries and damage calls in its own order.                          *)

Both == {"world", "twin"}

TwinWallArgs == {<<0, 0, 400, 0>>, <<400, 0, 0, 0>>}

NextTwin ==
    \/ HasWallBetween(Both, TwinWallArgs)
    \/ HasPillarAt(Both, {<<200, 200>>})
    \/ HitWall(Both, {K2}, {(3 * One) \div 2}, {1})
    \/ DestroyPillar(Both, {<<200, 200>>}, {FALSE}, {1})

SpecTwin == Init /\ [][NextTwin]_vars

\* What has_wall_between(x1, z1, x2, z2) makes of the wall's pre-damage
\* when called on w as it stands.
PreDamageOutcome(w, a) ==
    LET after == has_wall_between(w, a[1], a[2], a[3], a[4]).w
        key == WallKey(a[1], a[2], a[3], a[4])
    IN  <<PreDamage(after, key), key \in after.destroyed_walls>>

(* C8: whatever the two same-seed instances did before, the same call with *)
(* the same coordinates gives the same result on both: has_pillar_at, the  *)
(* pre-damage outcome of has_wall_between (the pre_damaged_walls value and *)
(* the destroyed_walls membership of a wall no damage call has touched),   *)
(* and get_doorway_type.                                                   *)
C8_SameSeedSameAnswers ==
    /\ \A p \in {<<200, 200>>} :
           has_pillar_at(world, p[1], p[2]).ret = has_pillar_at(twin, p[1], p[2]).ret
    /\ \A a \in TwinWallArgs :
           /\ PreDamageOutcome(world, a) = PreDamageOutcome(twin, a)
           /\ get_doorway_type(world, a[1], a[2], a[3], a[4])
                  = get_doorway_type(twin, a[1], a[2], a[3], a[4])

---------------------------------------------------------------------------
(* SpecDebris: a World in which PreBursts walls around the origin have     *)
(* already been destroyed, so that the debris pool is close to its cap;    *)
(* then more walls and pillars are destroyed, rubble is piled up, and      *)
(* update_debris runs with the player at the origin.                       *)

PreBursts == 79

\* The n-th of a row of wall keys near the origin.
BurstKey(n) == <<<<0, n>>, <<400, n>>>>

\* The World after destroy_wall(BurstKey(1)), ..., destroy_wall(BurstKey(n))
\* on a fresh instance, written out: n destroyed walls and their debris,
\* 150 pieces each, in the order of the calls.
AfterDestroyWalls(world_seed, n) ==
    LET keys == {BurstKey(b) : b \in 1..n}
        centre(i) == WallDebrisCentre(BurstKey(((i - 1) \div 150) + 1), 1)
    IN  [World(world_seed) EXCEPT
           !.destroyed_walls = keys,
           !.wall_states = [k \in keys |-> DESTROYED],
           !.wall_health = [k \in keys |-> 0],
           !.debris_pieces =
               [i \in 1..(150 * n) |-> Debris(i, centre(i)[1], centre(i)[2], TRUE)],
           !.spawned = 150 * n]

FarPillar == <<1400, 1400>>

InitDebris ==
    /\ world = AfterDestroyWalls(0, PreBursts)
    /\ twin = World(0)
    /\ out = Call("world", "init", <<>>, Ret(0, FALSE))
    /\ run = NoRun

NextDebris ==
    \/ DestroyWall({"world"}, {BurstKey(PreBursts + 1)}, {FALSE}, {1})
    \/ DestroyPillar({"world"}, {FarPillar}, {FALSE}, {1})
    \/ SpawnRubblePile({"world"}, {<<0, 0, 400, 0>>}, {1})
    \/ UpdateDebris({"world"}, {<<0, 0>>}, {0, 500})

SpecDebris == InitDebris /\ [][NextDebris]_vars

\* The pieces of w's pool that an update_debris pass with the player at p
\* leaves active: not expired under fate f, and within 900 of the player.
StillActive(w, p, f) ==
    LET Stays(d) ==
            /\ ~(f > 0 /\ d.serial % f = 0)
            /\ (d.cx - p[1]) * (d.cx - p[1]) + (d.cz - p[2]) * (d.cz - p[2])
                   <= 900 * 900
    IN  SelectSeq(w.debris_pieces, Stays)

(* C9: when more than 12000 pieces are still active after update_debris    *)
(* has expired and culled, the pool it leaves holds exactly 12000 pieces:  *)
(* the last 12000 of the active ones, in the order they were appended.     *)
C9_CapKeepsNewest ==
    [][out'.op = "update_debris" =>
          LET kept == StillActive(world, out'.args[1], out'.args[2])
              n == Len(kept)
          IN  n > 12000 =>
                  /\ Len(world'.debris_pieces) = 12000
                  /\ world'.debris_pieces = SubSeq(kept, n - 11999, n)]_vars

\* A pass has just cut the pool down to the cap: the oldest pieces are
\* gone, and among the survivors there are gaps where pieces expired or
\* were culled.
C9_Witness ==
    /\ out.op = "update_debris"
    /\ Len(world.debris_pieces) = 12000
    /\ world.debris_pieces[1].serial > 1
    /\ world.debris_pieces[12000].serial - world.debris_pieces[1].serial > 11999
    /\ world.debris_pieces[12000].serial = world.spawned

---------------------------------------------------------------------------
(* SpecSave: a World explored and damaged around the origin, walls with    *)
(* negative coordinates included, whose save is loaded into a fresh World  *)
(* after every call.                                                       *)

KA == <<<<-400, -400>>, <<0, -400>>>>

NextSave ==
    \/ HasWallBetween({"world"},
                      {<<-400, -400, 0, -400>>, <<0, 400, 0, 0>>, <<0, 0, 400, 400>>})
    \/ HasPillarAt({"world"}, PillarArgs)
    \/ HitWall({"world"}, {K2}, {One \div 2}, {1})
    \/ DestroyWall({"world"}, {KA}, BOOLEAN, {1})
    \/ DestroyPillar({"world"}, {<<200, 200>>}, BOOLEAN, {1})

SpecSave == Init /\ [][NextSave]_vars

\* A fresh World, of another seed, into which w's save has been loaded.
Reloaded(w) == load_state(World(w.world_seed + 1), get_state_for_save(w)).w

(* C10: loading a World's get_state_for_save() into a fresh World gives    *)
(* destroyed_walls, destroyed_pillars, wall_states, wall_health,           *)
(* wall_cracks, pre_damaged_walls, wall_cache and pillar_cache equal to    *)
(* the saved World's, keys being tuples of integers again.                 *)
C10_SaveLoadRoundTrip ==
    LET l == Reloaded(world)
    IN  /\ l.destroyed_walls = world.destroyed_walls
        /\ l.destroyed_pillars = world.destroyed_pillars
        /\ l.wall_states = world.wall_states
        /\ l.wall_health = world.wall_health
        /\ l.wall_cracks = world.wall_cracks
        /\ l.pre_damaged_walls = world.pre_damaged_walls
        /\ l.wall_cache = world.wall_cache
        /\ l.pillar_cache = world.pillar_cache

\* Two destroyed walls, one of them at negative coordinates and the other
\* cracked by a hit before its pre-damage roll destroyed it, a destroyed
\* pillar, both caches filled in, and a save whose keys are strings.
C10_Witness ==
    /\ {KA, K2} \subseteq world.destroyed_walls
    /\ <<200, 200>> \in world.destroyed_pillars
    /\ KA \in DOMAIN world.wall_states
    /\ K2 \in DOMAIN world.pre_damaged_walls
    /\ K2 \in DOMAIN world.wall_states
    /\ world.wall_states[K2] = CRACKED
    /\ Len(world.wall_cracks[K2]) = 1
    /\ <<<<0, 0>>, <<400, 400>>>> \in DOMAIN world.wall_cache
    /\ DOMAIN world.pillar_cache = {<<0, 0>>, <<200, 200>>}
    /\ StrWallKey(KA) \in DOMAIN get_state_for_save(world).wall_states
    /\ Len(get_state_for_save(world).destroyed_walls) = 2


---------------------------------------------------------------------------
(* SpecLoad: a World that has been queried, damaged and littered, into     *)
(* which save documents are loaded: a complete save of another World,      *)
(* documents with fields missing, and documents with a damaged key.        *)

\* The text of a wall key cut short before its closing parenthesis.
Truncated(k) == SubSeq(StrWallKey(k), 1, Len(StrWallKey(k)) - 1)

\* A document with no field at all.
DocEmpty == EmptyMap

\* A document that has a seed and some of the collections.
DocPartial ==
    [seed            |-> 4,
     wall_cache      |-> (StrWallKey(K2) :> TRUE),
     destroyed_walls |-> <<K2>>,
     wall_health     |-> (StrWallKey(K2) :> 0)]

\* The save of a World of seed 0 in which the wall K2 was hit once and the
\* pillar at (200, 200) destroyed.
DocSaved ==
    get_state_for_save(
        destroy_pillar(hit_wall(World(0), K2, One \div 2, 1).w,
                       <<200, 200>>, FALSE, 1).w)

\* Documents in which one key of wall_cache, or of wall_health, has lost
\* its last character.
DocBadCache ==
    [wall_cache        |-> (Truncated(K1) :> TRUE) @@ (StrWallKey(K2) :> TRUE),
     destroyed_pillars |-> <<<<200, 200>>>>,
     wall_health       |-> (StrWallKey(K2) :> One \div 2)]

DocBadHealth ==
    [wall_cache        |-> (StrWallKey(K2) :> TRUE),
     wall_health       |-> (Truncated(K1) :> One \div 2) @@ (StrWallKey(K2) :> One \div 2),
     pre_damaged_walls |-> (StrWallKey(K2) :> One \div 4)]

Docs == {DocEmpty, DocPartial, DocSaved, DocBadCache, DocBadHealth}

NextLoad ==
    \/ HasWallBetween({"world"}, {<<0, 0, 400, 0>>})
    \/ HasPillarAt({"world"}, {<<200, 200>>})
    \/ DestroyWall({"world"}, {K1}, {TRUE}, {1})
    \/ SpawnRubblePile({"world"}, {<<0, 0, 400, 0>>}, {1})
    \/ LoadState({"world"}, Docs)

SpecLoad == Init /\ [][NextLoad]_vars

\* The keys a document provides for a map field.
DocKeys(data, field) ==
    {EvalKey(s) : s \in {t \in DOMAIN DataGet(data, field, EmptyMap) : Eval(t).ok}}

(* C11: after a load_state that returned, every cache and store holds only *)
(* what the document provides (the rubble-spawned set, which no document   *)
(* carries, holds nothing) and zone_cache is empty.                        *)
C11_LoadReplacesEverything ==
    [][out'.op = "load_state" /\ ~out'.raised =>
          LET data == out'.args[1]
          IN  /\ DOMAIN world'.wall_cache \subseteq DocKeys(data, "wall_cache")
              /\ DOMAIN world'.pillar_cache \subseteq DocKeys(data, "pillar_cache")
              /\ world'.destroyed_walls
                     \subseteq WallSetOfList(DataGet(data, "destroyed_walls", <<>>))
              /\ world'.destroyed_pillars
                     \subseteq TupleSetOfList(DataGet(data, "destroyed_pillars", <<>>))
              /\ DOMAIN world'.wall_states \subseteq DocKeys(data, "wall_states")
              /\ DOMAIN world'.wall_health \subseteq DocKeys(data, "wall_health")
              /\ DOMAIN world'.wall_cracks \subseteq DocKeys(data, "wall_cracks")
              /\ DOMAIN world'.pre_damaged_walls
                     \subseteq DocKeys(data, "pre_damaged_walls")
              /\ world'.debris_pieces = DataGet(data, "debris_pieces", <<>>)
              /\ world'.spawned_rubble = {}
              /\ world'.zone_cache = EmptyMap]_vars

---------------------------------------------------------------------------
(* Saving a crowded debris pool (over SpecDebris). *)

\* The serial numbers of the pieces in a list of debris.
Serials(pieces) == {pieces[i].serial : i \in DOMAIN pieces}

(* C12: get_state_for_save stores at most 1000 debris entries, and when    *)
(* the pool holds more than 1000 active pieces the stored ones are the     *)
(* 1000 spawned last.                                                      *)
C12_SaveKeepsNewestDebris ==
    LET saved == get_state_for_save(world).debris_pieces
        n == Len(world.debris_pieces)
    IN  /\ Len(saved) <= 1000
        /\ n > 1000 =>
               Serials(saved) = Serials(SubSeq(world.debris_pieces, n - 999, n))

---------------------------------------------------------------------------
(* SpecCollide: collision queries around the wall K1, at finite and at     *)
(* non-finite positions, on a World whose wall K1 may first have been      *)
(* asked about with its endpoints reversed and may have been destroyed.    *)

\* On the line of K1: the middle of the wall, where a hallway has the
\* middle of its opening.
OnK1Centre == <<Float(200), Float(0)>>

\* On the line of K1: 10 short of where a hallway's opening starts (140).
OnK1Flank == <<Float(130), Float(0)>>

\* On the line of K2, 100 from its end that K1 shares.
OnK2 == <<Float(0), Float(100)>>

\* Inside the pillar of the cell whose walls are K1 and K2.
InPillar == <<Float(210), Float(210)>>

NonFinitePoints ==
    {<<NaN, Float(200)>>, <<Float(200), Infinity>>, <<NegInfinity, NaN>>}

NextCollide ==
    \/ HasWallBetween({"world"}, {<<400, 0, 0, 0>>})
    \/ CheckCollision({"world"},
                      {OnK1Centre, OnK1Flank, OnK2, InPillar} \cup NonFinitePoints)
    \/ DestroyWall({"world"}, {K1}, {FALSE}, {1})

SpecCollide == Init /\ [][NextCollide]_vars

(* C13: check_collision(x, z) with x or z a NaN or an infinity returns     *)
(* True, raises nothing and leaves the World, caches included, as it was.  *)
C13_NonFiniteIsSolid ==
    [][/\ out'.op = "check_collision"
       /\ ~isfinite(out'.args[1]) \/ ~isfinite(out'.args[2])
       => /\ out'.ret = TRUE
          /\ ~out'.raised
          /\ world' = world]_vars

\* A NaN position has just been reported blocked on a World that has been
\* asked nothing yet: its caches are still empty.
C13_Witness ==
    /\ out.op = "check_collision"
    /\ out.args = <<NaN, Float(200)>>
    /\ out.ret = TRUE
    /\ world.wall_cache = EmptyMap
    /\ world.pillar_cache = EmptyMap
    /\ world.destroyed_walls = {}

\* Positions along K1 (x from 0 to 400) on either side of an opening.
FlankXs == {0, 60, 125, 130, 139, 261, 270, 275, 340, 399}

(* C14: while K1 is a hallway or doorway wall and is not destroyed,        *)
(* check_collision on its line reports the centre of the opening free and  *)
(* every position of the wall's span outside the opening blocked.          *)
C14_OpeningFreeFlanksBlocked ==
    LET width == OpeningWidth(get_doorway_type(world, 0, 0, 400, 0))
        opening_start == (PILLAR_SPACING - width) \div 2
        opening_end == opening_start + width
        At(x) == check_collision(world, Float(x), Float(0))
        Standing(r) == /\ K1 \in DOMAIN r.w.wall_cache
                       /\ r.w.wall_cache[K1]
                       /\ K1 \notin r.w.destroyed_walls
    IN  width > 0 =>
            /\ Standing(At(200)) => ~At(200).ret
            /\ \A x \in FlankXs :
                   (x < opening_start \/ x > opening_end) /\ Standing(At(x))
                       => At(x).ret

(* C18: with the horizontal wall K1 of a cell destroyed, a position inside *)
(* the solid span of the same cell's vertical wall K2, or inside the       *)
(* cell's pillar, is still reported blocked while that wall or pillar      *)
(* stands.                                                                 *)
C18_DestroyedWallOpensOnlyItself ==
    K1 \in world.destroyed_walls =>
        /\ LET r == check_collision(world, OnK2[1], OnK2[2])
               v == has_wall_between(r.w, 0, 0, 0, 400)
               solid == WallBlocks(OpeningWidth(get_doorway_type(v.w, 0, 0, 0, 400)),
                                   0, 400, 0, OnK2[2].v, OnK2[1].v)
           IN  v.ret /\ K2 \notin v.w.destroyed_walls /\ solid => r.ret
        /\ LET r == check_collision(world, InPillar[1], InPillar[2])
               p == has_pillar_at(r.w, 200, 200)
           IN  /\ p.ret
               /\ <<200, 200>> \notin p.w.destroyed_pillars
               /\ PillarBlocks(200, 200, InPillar[1].v, InPillar[2].v)
               => r.ret

(* C19 as stated: a check_collision call leaves destroyed_walls,           *)
(* destroyed_pillars, wall_states, wall_health and wall_cracks unchanged.  *)
C19_CollisionOnlyReads ==
    [][out'.op = "check_collision" =>
          /\ world'.destroyed_walls = world.destroyed_walls
          /\ world'.destroyed_pillars = world.destroyed_pillars
          /\ world'.wall_states = world.wall_states
          /\ world'.wall_health = world.wall_health
          /\ world'.wall_cracks = world.wall_cracks]_vars

(* C19, amended: a check_collision call leaves destroyed_pillars,          *)
(* wall_states, wall_health and wall_cracks unchanged and removes nothing  *)
(* from destroyed_walls; a key it adds to destroyed_walls is that of a     *)
(* wall that was not in wall_cache before the call and that the call's     *)
(* has_wall_between query pre-damaged below 0.2.                           *)
C19_CollisionOnlyDiscovers ==
    [][out'.op = "check_collision" =>
          /\ world'.destroyed_pillars = world.destroyed_pillars
          /\ world'.wall_states = world.wall_states
          /\ world'.wall_health = world.wall_health
          /\ world'.wall_cracks = world.wall_cracks
          /\ world.destroyed_walls \subseteq world'.destroyed_walls
          /\ \A k \in world'.destroyed_walls \ world.destroyed_walls :
                 /\ k \notin DOMAIN world.wall_cache
                 /\ k \in DOMAIN world'.wall_cache
                 /\ k \notin DOMAIN world.pre_damaged_walls
                 /\ k \in DOMAIN world'.pre_damaged_walls
                 /\ world'.pre_damaged_walls[k] < (2 * One) \div 10]_vars

\* A collision query has just discovered the wall K1 and its pre-damage
\* roll has destroyed it: no damage call ever touched the wall.
C19_Witness ==
    /\ out.op = "check_collision"
    /\ isfinite(out.args[1]) /\ isfinite(out.args[2])
    /\ K1 \in world.destroyed_walls
    /\ K1 \in DOMAIN world.pre_damaged_walls
    /\ K1 \notin DOMAIN world.wall_states
    /\ K1 \notin DOMAIN world.wall_health

---------------------------------------------------------------------------
(* Damage calls on what is already destroyed (over SpecAll). *)

(* C15: hit_wall and destroy_wall on a wall that is in destroyed_walls,    *)
(* and destroy_pillar on a pillar that is in destroyed_pillars, return     *)
(* without raising, emit no event, play no sound, and leave the World, its *)
(* debris pool included, exactly as it was.                                *)
C15_DestroyedIsNoOp ==
    [][\/ /\ out'.op \in {"hit_wall", "destroy_wall"}
          /\ out'.args[1] \in world.destroyed_walls
       \/ /\ out'.op = "destroy_pillar"
          /\ out'.args[1] \in world.destroyed_pillars
       => /\ world' = world
          /\ out'.events = <<>>
          /\ ~out'.sound
          /\ ~out'.raised]_vars

\* destroy_wall was just called, with a sound to play, on a wall destroyed
\* before: the call that destroys emits an event, this one emitted none.
C15_Witness ==
    /\ out.op = "destroy_wall"
    /\ out.args = <<K1, TRUE>>
    /\ K1 \in world.destroyed_walls
    /\ <<200, 200>> \in world.destroyed_pillars
    /\ out.events = <<>>
    /\ ~out.sound
    /\ world.debris_pieces # <<>>

---------------------------------------------------------------------------
(* Loading incomplete and damaged documents (over SpecLoad). *)

MapFields ==
    {"wall_cache", "pillar_cache", "wall_states", "wall_health", "wall_cracks",
     "pre_damaged_walls"}

\* Every key text of the document's maps is the text of a key.
WellFormed(data) ==
    \A f \in MapFields : \A s \in DOMAIN DataGet(data, f, EmptyMap) : Eval(s).ok

(* C16: load_state of a document whose key texts are sound returns without *)
(* raising whichever fields are missing; without a seed the World keeps    *)
(* its world_seed, and each collection the document lacks is loaded as an  *)
(* empty map, set or list.                                                 *)
C16_MissingFieldsDefault ==
    [][out'.op = "load_state" /\ WellFormed(out'.args[1]) =>
          LET data == out'.args[1]
              Missing(f) == f \notin DOMAIN data
          IN  /\ ~out'.raised
              /\ Missing("seed") => world'.world_seed = world.world_seed
              /\ Missing("wall_cache") => world'.wall_cache = EmptyMap
              /\ Missing("pillar_cache") => world'.pillar_cache = EmptyMap
              /\ Missing("destroyed_walls") => world'.destroyed_walls = {}
              /\ Missing("destroyed_pillars") => world'.destroyed_pillars = {}
              /\ Missing("destroyed_lamps") => world'.destroyed_lamps = {}
              /\ Missing("triggered_traps") => world'.triggered_traps = {}
              /\ Missing("wall_states") => world'.wall_states = EmptyMap
              /\ Missing("wall_health") => world'.wall_health = EmptyMap
              /\ Missing("wall_cracks") => world'.wall_cracks = EmptyMap
              /\ Missing("pre_damaged_walls") => world'.pre_damaged_walls = EmptyMap
              /\ Missing("debris_pieces") => world'.debris_pieces = <<>>]_vars

\* The document without any field has just been loaded into a World of
\* seed 4 that had created debris: the seed is kept and the stores are
\* empty.
C16_Witness ==
    /\ out.op = "load_state"
    /\ out.args = <<DocEmpty>>
    /\ ~out.raised
    /\ world.world_seed = 4
    /\ world.spawned > 0
    /\ world.debris_pieces = <<>>
    /\ world.destroyed_walls = {}
    /\ world.wall_cache = EmptyMap

(* C17: load_state of a document with a key text that is not the text of a *)
(* key does not raise: it leaves that entry out and loads every other      *)
(* entry of the maps, and the rest of the document.                        *)
C17_BadKeySkipped ==
    [][out'.op = "load_state" =>
          LET data == out'.args[1]
          IN  /\ ~out'.raised
              /\ DOMAIN world'.wall_cache = DocKeys(data, "wall_cache")
              /\ DOMAIN world'.pillar_cache = DocKeys(data, "pillar_cache")
              /\ DOMAIN world'.wall_states = DocKeys(data, "wall_states")
              /\ DOMAIN world'.wall_health = DocKeys(data, "wall_health")
              /\ DOMAIN world'.wall_cracks = DocKeys(data, "wall_cracks")
              /\ DOMAIN world'.pre_damaged_walls = DocKeys(data, "pre_damaged_walls")
              /\ world'.destroyed_pillars
                     = TupleSetOfList(DataGet(data, "destroyed_pillars", <<>>))]_vars

---------------------------------------------------------------------------
(* SpecKeys: one wall, named to the damage calls by its sorted key and by  *)
(* the key with the endpoints the other way round.                         *)

K1Reversed == <<<<400, 0>>, <<0, 0>>>>

NextKeys ==
    \/ HasWallBetween({"world"}, {<<0, 0, 400, 0>>, <<400, 0, 0, 0>>})
    \/ HitWall({"world"}, {K1, K1Reversed}, {One \div 4, (3 * One) \div 2}, {1})
    \/ DestroyWall({"world"}, {K1Reversed}, {FALSE}, {1})

SpecKeys == Init /\ [][NextKeys]_vars

(* C20: every key stored in destroyed_walls, wall_states, wall_health and  *)
(* wall_cracks is in sorted form, and is_wall_destroyed, get_wall_state,   *)
(* get_wall_health and get_wall_cracks answer the same for a wall's key    *)
(* with its endpoints in either order.                                     *)
C20_KeysCanonicalEverywhere ==
    /\ \A k \in world.destroyed_walls \cup DOMAIN world.wall_states
                \cup DOMAIN world.wall_health \cup DOMAIN world.wall_cracks :
           TupleLeq(k[1], k[2])
    /\ is_wall_destroyed(world, K1) = is_wall_destroyed(world, K1Reversed)
    /\ get_wall_state(world, K1) = get_wall_state(world, K1Reversed)
    /\ get_wall_health(world, K1) = get_wall_health(world, K1Reversed)
    /\ get_wall_cracks(world, K1) = get_wall_cracks(world, K1Reversed)

---------------------------------------------------------------------------
(* A load that fails (over SpecLoad). *)

(* C21: a load_state call that raises leaves the World, its caches,        *)
(* destruction stores, seed and debris pool, exactly as it was before the  *)
(* call.                                                                   *)
C21_FailedLoadChangesNothing ==
    [][out'.op = "load_state" /\ out'.raised => world' = world]_vars

---------------------------------------------------------------------------
(* What lasts without a load (over SpecAll). *)

(* C22: no has_wall_between, has_pillar_at, check_collision, hit_wall,     *)
(* destroy_wall, destroy_pillar, spawn_rubble_pile or update_debris call   *)
(* takes a key out of destroyed_walls or destroyed_pillars, or removes an  *)
(* entry of wall_states, wall_health or wall_cracks.                       *)
C22_DestructionIsPermanent ==
    [][/\ world.destroyed_walls \subseteq world'.destroyed_walls
       /\ world.destroyed_pillars \subseteq world'.destroyed_pillars
       /\ DOMAIN world.wall_states \subseteq DOMAIN world'.wall_states
       /\ DOMAIN world.wall_health \subseteq DOMAIN world'.wall_health
       /\ DOMAIN world.wall_cracks \subseteq DOMAIN world'.wall_cracks]_vars

\* destroy_wall has just been called on a wall that one hit had fractured
\* and a second destroyed, after the pillar was destroyed too and the debris
\* of both was swept away: both are still destroyed and the wall's health,
\* state and cracks are still there.
C22_Witness ==
    /\ out.op = "destroy_wall"
    /\ out.events = <<>>
    /\ K1 \in world.destroyed_walls
    /\ K1 \in DOMAIN world.wall_health
    /\ world.wall_health[K1] < 0
    /\ world.wall_states[K1] = DESTROYED
    /\ K1 \in DOMAIN world.wall_cracks
    /\ Len(world.wall_cracks[K1]) = 2
    /\ <<200, 200>> \in world.destroyed_pillars
    /\ world.spawned >= 350
    /\ world.debris_pieces = <<>>

(* C24: spawn_rubble_pile for a wall that has no pile yet appends exactly  *)
(* 80 settled particles to the debris pool and marks the wall; for a wall  *)
(* that has one, named with its endpoints in either order, it changes      *)
(* nothing; destroyed_walls plays no part.  No other call marks or unmarks *)
(* a wall, so a wall is marked exactly when the call was made for it.      *)
C24_RubbleOncePerWall ==
    [][IF out'.op = "spawn_rubble_pile"
       THEN LET p == <<out'.args[1], out'.args[2]>>
                q == <<out'.args[3], out'.args[4]>>
                key == IF TupleLeq(p, q) THEN <<p, q>> ELSE <<q, p>>
                n == Len(world.debris_pieces)
            IN  IF key \in world.spawned_rubble
                THEN world' = world
                ELSE /\ world'.spawned_rubble = world.spawned_rubble \cup {key}
                     /\ world'.destroyed_walls = world.destroyed_walls
                     /\ Len(world'.debris_pieces) = n + 80
                     /\ SubSeq(world'.debris_pieces, 1, n) = world.debris_pieces
                     /\ \A i \in (n + 1)..(n + 80) :
                            world'.debris_pieces[i].is_settled
       ELSE world'.spawned_rubble = world.spawned_rubble]_vars

\* The pile of K1 was spawned first and the pillar destroyed after it; the
\* call just made for K1, endpoints reversed, came later still and added
\* nothing: the pool ends with the pillar's debris.
C24_Witness ==
    /\ out.op = "spawn_rubble_pile"
    /\ out.args = <<400, 0, 0, 0>>
    /\ K1 \in world.spawned_rubble
    /\ K1 \notin world.destroyed_walls
    /\ world.spawned = 280
    /\ Len(world.debris_pieces) = 280
    /\ world.debris_pieces[1].is_settled
    /\ world.debris_pieces[80].is_settled
    /\ ~world.debris_pieces[81].is_settled

(* C25: the pre-damage outcome of a wall depends on its canonical key and  *)
(* the world seed only.  Of two Worlds with the same seed that have both   *)
(* discovered the wall K1, by has_wall_between with the endpoints in       *)
(* whichever order each was asked first, and neither of which has damaged  *)
(* it, both hold the same pre_damaged_walls entry for K1 and agree on      *)
(* whether K1 is in destroyed_walls.                                       *)
C25_PreDamageByKeyAndSeed ==
    (K1 \in DOMAIN world.wall_cache /\ K1 \in DOMAIN twin.wall_cache)
        => /\ world.world_seed = twin.world_seed
           /\ PreDamage(world, K1) = PreDamage(twin, K1)
           /\ K1 \in world.destroyed_walls <=> K1 \in twin.destroyed_walls

(* C26: whatever has_wall_between, check_collision, hit_wall and           *)
(* destroy_wall calls a fresh World has seen, no wall's stored state and   *)
(* no wall's reported state is BREAKING: each is one of INTACT, CRACKED,   *)
(* FRACTURED and DESTROYED.                                                *)
C26_BreakingNeverReached ==
    /\ \A k \in DOMAIN world.wall_states :
           /\ world.wall_states[k] # BREAKING
           /\ world.wall_states[k] \in {INTACT, CRACKED, FRACTURED, DESTROYED}
    /\ \A k \in WallKeys :
           /\ get_wall_state(world, k) # BREAKING
           /\ get_wall_state(world, k) \in {INTACT, CRACKED, FRACTURED, DESTROYED}

\* A wall hit down to a quarter of its health, below every threshold but
\* the last: it went through CRACKED (three cracks) and is FRACTURED.
C26_Witness ==
    /\ out.op = "hit_wall"
    /\ out.args[1] = K1
    /\ K1 \notin world.destroyed_walls
    /\ K1 \in DOMAIN world.wall_states
    /\ world.wall_health[K1] = One \div 4
    /\ Len(get_wall_cracks(world, K1)) = 3
    /\ world.wall_states[K1] = FRACTURED
    /\ get_wall_state(world, K1) = FRACTURED

---------------------------------------------------------------------------
(* SpecEvents: hit_wall, with damage of any size from none to more than a  *)
(* wall's whole health, and destroy_wall on two walls.  run.rets is the    *)
(* list of all events emitted on the event bus since the World was made.   *)

\* The longest event list that is still added to.
LogMax == 8

\* A call whose events are appended to the list.
Logged(i, op, args, res) ==
    /\ Len(run.rets) < LogMax
    /\ world' = res.w
    /\ UNCHANGED twin
    /\ out' = Call(i, op, args, res)
    /\ run' = [key |-> <<>>, n |-> Len(run.rets) + Len(res.events),
               rets |-> run.rets \o res.events]

HitWallLogged(keys, damages, draws) ==
    \E k \in keys, d \in damages, r \in draws :
        Logged("world", "hit_wall", <<k, d>>, hit_wall(world, k, d, r))

DestroyWallLogged(keys, sounds, draws) ==
    \E k \in keys, s \in sounds, r \in draws :
        Logged("world", "destroy_wall", <<k, s>>, destroy_wall(world, k, s, r))

NextEvents ==
    \/ HitWallLogged(WallKeys, Damages, {1})
    \/ DestroyWallLogged(WallKeys, {FALSE}, {1})

SpecEvents == Init /\ [][NextEvents]_vars

\* How often the event of the given type for the given key is in the list.
Emitted(type, key) ==
    Cardinality({i \in DOMAIN run.rets : run.rets[i] = Event(type, key)})

(* C23: over hit_wall and destroy_wall calls, each of WALL_CRACKED,        *)
(* WALL_FRACTURED and WALL_DESTROYED has been emitted at most once for     *)
(* each wall key, and the particles created are 150 for each wall whose    *)
(* WALL_DESTROYED was emitted: one burst a wall, none otherwise.           *)
C23_EventsOncePerWall ==
    /\ \A k \in WallKeys :
           \A type \in {"WALL_CRACKED", "WALL_FRACTURED", "WALL_DESTROYED"} :
               Emitted(type, k) <= 1
    /\ world.spawned
           = 150 * Cardinality({k \in WallKeys : Emitted("WALL_DESTROYED", k) >= 1})
    /\ Len(world.debris_pieces) = world.spawned

\* One wall went down the whole ladder, the other was destroyed outright,
\* and hits kept coming after that: five events, two bursts.
C23_Witness ==
    /\ out.op = "hit_wall"
    /\ out.events = <<>>
    /\ out.args[1] \in world.destroyed_walls
    /\ Emitted("WALL_CRACKED", K1) = 1
    /\ Emitted("WALL_FRACTURED", K1) = 1
    /\ Emitted("WALL_DESTROYED", K1) = 1
    /\ Emitted("WALL_DESTROYED", K2) = 1
    /\ world.spawned = 300
====
